---- MODULE Spec2Model ----
(***************************************************************************)
(* Provider adapters of guess-who: OpenAIProvider, OpenRouterProvider,     *)
(* AnthropicProvider and GeminiProvider.  One behaviour follows one        *)
(* adapter instance (chosen in Init): its conversation history, its        *)
(* side-channel system prompt, the calls in flight on it, a credential     *)
(* validation in progress and (OpenRouter) its model catalog.              *)
(*                                                                         *)
(* Every `await` of the source is a suspension point: an operation is one  *)
(* action per synchronous stretch between two awaits.                      *)
(*                                                                         *)
(* Text (JavaScript strings) is a sequence of one-character or one-token   *)
(* strings: '' is << >>, s + t is s \o t, and "s is truthy" is s # << >>. *)
(***************************************************************************)
EXTENDS Integers, Sequences, FiniteSets, TLC

(***************************************************************************)
(* Bounds of the model.                                                    *)
(***************************************************************************)
\* callAPI invocations per behaviour
MaxCalls == 2
\* entries pushed by addToHistory that the history holds at a time
MaxNotes == 1

(***************************************************************************)
(* Text.                                                                   *)
(***************************************************************************)
Empty == << >>

Truthy(s) == s # Empty

\* String.prototype.includes: t occurs in s as a contiguous substring
Includes(s, t) ==
    \E i \in 1..(Len(s) + 1) :
        /\ i + Len(t) - 1 <= Len(s)
        /\ \A k \in 1..Len(t) : s[i + k - 1] = t[k]

\* The two literals validateApiKey (Anthropic) searches the 400 message for
LowerModel == <<"m", "o", "d", "e", "l">>
CapitalModel == <<"M", "o", "d", "e", "l">>

(***************************************************************************)
(* The adapters.  The repository holds two generations of three of them;   *)
(* each generation is an adapter of its own here.                          *)
(*   openai          src/openai.js:147-343       atomic decode             *)
(*   openrouter      src/openrouter.js           atomic decode             *)
(*   anthropic       src/anthropic.js            atomic decode             *)
(*   gemini          src/gemini.js               concatenated-JSON stream  *)
(*   anthropic_sse   src/unnamed/part_000        event-stream decode       *)
(*   openrouter_sse  src/unnamed/part_001:1-323  event-stream decode       *)
(*   gemini_atomic   src/unnamed/part_001:324-   atomic decode             *)
(***************************************************************************)
Providers ==
    {"openai", "openrouter", "anthropic", "gemini",
     "anthropic_sse", "openrouter_sse", "gemini_atomic"}

IsOpenAI(p) == p = "openai"
IsOpenRouter(p) == p \in {"openrouter", "openrouter_sse"}
IsAnthropic(p) == p \in {"anthropic", "anthropic_sse"}
IsGemini(p) == p \in {"gemini", "gemini_atomic"}

\* The system prompt is an in-line message (OpenAI family) ...
InLine(p) == IsOpenAI(p) \/ IsOpenRouter(p)
\* ... or the field this.systemPrompt, sent beside the messages
SideChannel(p) == IsAnthropic(p) \/ IsGemini(p)

\* streamResponse reads the body through response.body.getReader()
Streaming(p) == p \in {"gemini", "anthropic_sse", "openrouter_sse"}

(***************************************************************************)
(* Messages.  A history entry is {role, content} (OpenAI, Anthropic) or    *)
(* {role, parts} (Gemini).  shape tells the three wire forms apart:        *)
(*   "string"  content is a string, held as one text block                 *)
(*   "blocks"  content is an array of typed blocks                         *)
(*   "parts"   Gemini's parts array                                        *)
(* op and call are history variables of the model, not fields of the       *)
(* source's objects: the operation that pushed the entry and, for callAPI  *)
(* and streamResponse, the call it belongs to.  Wire() drops them.         *)
(***************************************************************************)
TextBlock(t) == [type |-> "text", text |-> t, data |-> Empty]

Message(role, shape, content) ==
    [role |-> role, shape |-> shape, content |-> content]

Tagged(m, op, call) ==
    [role |-> m.role, shape |-> m.shape, content |-> m.content,
     op |-> op, call |-> call]

Wire(h) == [i \in 1..Len(h) |-> Message(h[i].role, h[i].shape, h[i].content)]

\* createImageContent(base64Image)
createImageContent(p, image) ==
    CASE IsAnthropic(p) -> [type |-> "image", text |-> Empty, data |-> image]
      [] IsGemini(p) -> [type |-> "inlineData", text |-> Empty, data |-> image]
      [] OTHER -> [type |-> "image_url", text |-> Empty,
                   data |-> <<"data:image/png;base64,">> \o image]

(***************************************************************************)
(* createMultimodalMessage(textContent, base64Images).  The second         *)
(* argument is a value (null or a string: value, Empty when falsy) or an   *)
(* array of such values (items).                                           *)
(***************************************************************************)
Single(value) == [isArray |-> FALSE, value |-> value, items |-> << >>]
Array(items) == [isArray |-> TRUE, value |-> Empty, items |-> items]
NoImage == Single(Empty)

\* Array.prototype.join: null and '' give the empty string
RECURSIVE Join(_)
Join(items) ==
    CASE items = << >> -> Empty
      [] Len(items) = 1 -> items[1]
      [] OTHER -> Head(items) \o <<",">> \o Join(Tail(items))

\* `${base64Image}`: a string as it is, an array joined by commas
TemplateString(image) == IF image.isArray THEN Join(image.items) ELSE image.value

\* if (base64Image): an array is truthy, even when empty
TruthyImage(image) == image.isArray \/ Truthy(image.value)

\* The items a forEach with `if (base64Image)` keeps
RECURSIVE TruthyItems(_)
TruthyItems(items) ==
    IF items = << >>
    THEN << >>
    ELSE (IF Truthy(Head(items)) THEN <<Head(items)>> ELSE << >>)
         \o TruthyItems(Tail(items))

\* The image blocks: src/openai.js and src/openrouter.js test the argument
\* and make one block of it; src/anthropic.js, src/gemini.js and the Gemini
\* of src/unnamed/part_001 go through an array
ImageBlocks(p, image) ==
    IF InLine(p)
    THEN IF TruthyImage(image)
         THEN <<createImageContent(p, TemplateString(image))>>
         ELSE << >>
    ELSE IF image.isArray
         THEN [i \in 1..Len(TruthyItems(image.items)) |->
                  createImageContent(p, TruthyItems(image.items)[i])]
         ELSE IF Truthy(image.value)
              THEN <<createImageContent(p, image.value)>>
              ELSE << >>

createMultimodalMessage(p, textContent, base64Images) ==
    Message("user", IF IsGemini(p) THEN "parts" ELSE "blocks",
            (IF Truthy(textContent) THEN <<TextBlock(textContent)>> ELSE << >>)
            \o ImageBlocks(p, base64Images))

(***************************************************************************)
(* addToHistory.  Two signatures occur: addToHistory(message) pushes the   *)
(* message as given; addToHistory(role, content) builds the entry, and     *)
(* src/gemini.js renames assistant to model and wraps the text in parts.   *)
(***************************************************************************)
TakesRoleAndContent(p) == p \in {"gemini", "anthropic_sse", "openrouter_sse"}

\* src/gemini.js: const geminiRole = role === 'assistant' ? 'model' : role
geminiRole(role) == IF role = "assistant" THEN "model" ELSE role

\* The entry addToHistory(role, content) pushes, or the message a caller of
\* addToHistory(message) builds for the same role and text
HistoryEntry(p, role, text) ==
    CASE p = "gemini" -> Message(geminiRole(role), "parts", <<TextBlock(text)>>)
      [] p = "gemini_atomic" -> Message(role, "parts", <<TextBlock(text)>>)
      [] OTHER -> Message(role, "string", <<TextBlock(text)>>)

(***************************************************************************)
(* callAPI's first statement: the user turn it pushes.  The message is a   *)
(* string or an object (isString); text is the string, obj the object.     *)
(***************************************************************************)
NoObject == Message("user", "string", << >>)

StringInput(t) == [isString |-> TRUE, text |-> t, obj |-> NoObject]
ObjectInput(m) == [isString |-> FALSE, text |-> Empty, obj |-> m]

\* src/gemini.js:72-76: an Anthropic-style block converted to a Gemini part
GeminiPartOf(item) ==
    CASE item.type = "text" -> TextBlock(item.text)
      [] item.type = "image" ->
            [type |-> "inlineData", text |-> Empty, data |-> item.data]
      [] OTHER -> item

UserTurn(p, message) ==
    CASE message.isString /\ IsGemini(p) ->
            Message("user", "parts", <<TextBlock(message.text)>>)
      [] message.isString /\ ~IsGemini(p) ->
            Message("user", "string", <<TextBlock(message.text)>>)
      [] ~message.isString /\ p = "gemini" /\ message.obj.shape = "parts" ->
            Message("user", "parts", message.obj.content)
      [] ~message.isString /\ p = "gemini" /\ message.obj.shape # "parts" ->
            Message("user", "parts",
                    [i \in 1..Len(message.obj.content) |->
                        GeminiPartOf(message.obj.content[i])])
      [] OTHER -> message.obj

\* Faulty variant of AssistantTurn: the reply is stored under the user role
AssistantTurnAsUser(p, text) ==
    IF IsGemini(p)
    THEN Message("user", "parts", <<TextBlock(text)>>)
    ELSE Message("user", "string", <<TextBlock(text)>>)

\* The assistant turn streamResponse pushes once the body is decoded
AssistantTurn(p, text) ==
    CASE p = "gemini" -> HistoryEntry(p, "assistant", text)
      [] p = "gemini_atomic" -> Message("model", "parts", <<TextBlock(text)>>)
      [] OTHER -> Message("assistant", "string", <<TextBlock(text)>>)

(***************************************************************************)
(* setSystemPrompt and clearHistory.                                       *)
(***************************************************************************)
\* Faulty variant of PromptHistory: every adapter stores the prompt in-line
PromptHistoryInLine(p, prompt) ==
    <<Message("system", "string", <<TextBlock(prompt)>>)>>

\* conversationHistory after setSystemPrompt(prompt)
PromptHistory(p, prompt) ==
    IF InLine(p)
    THEN <<Message("system", "string", <<TextBlock(prompt)>>)>>
    ELSE << >>

\* this.systemPrompt after setSystemPrompt(prompt); the OpenAI family has no
\* such field (it stays '')
PromptField(p, prompt) == IF SideChannel(p) THEN prompt ELSE Empty

(***************************************************************************)
(* The request callAPI encodes: params, as JSON.stringify sees it when     *)
(* fetch is called.  system is params.system (Anthropic) or                *)
(* params.systemInstruction (Gemini); hasSystem says whether it is there.  *)
(***************************************************************************)
\* if (this.systemPrompt) params.system = this.systemPrompt
SystemChannel(p, prompt) ==
    IF SideChannel(p) /\ Truthy(prompt)
    THEN [hasSystem |-> TRUE, system |-> prompt]
    ELSE [hasSystem |-> FALSE, system |-> Empty]

\* Faulty variant of Encode: params is built before the user turn is pushed
EncodeBeforePush(p, call, history, prompt, ntools) ==
    [call |-> call,
     messages |-> Wire(SubSeq(history, 1, Len(history) - 1)),
     hasSystem |-> SystemChannel(p, prompt).hasSystem,
     system |-> SystemChannel(p, prompt).system,
     tools |-> ntools,
     stream |-> Streaming(p)]

\* stream: the atomic adapters send stream: false, the event-stream ones
\* stream: true; Gemini has no such field and picks the endpoint instead
Encode(p, call, history, prompt, ntools) ==
    [call |-> call,
     messages |-> Wire(history),
     hasSystem |-> SystemChannel(p, prompt).hasSystem,
     system |-> SystemChannel(p, prompt).system,
     tools |-> ntools,
     stream |-> Streaming(p)]

NoRequest ==
    [call |-> 0, messages |-> << >>, hasSystem |-> FALSE, system |-> Empty,
     tools |-> 0, stream |-> FALSE]

(***************************************************************************)
(* HTTP responses and thrown errors.                                       *)
(*                                                                         *)
(* An error body is what response.json() yields for a failed request:      *)
(* json = FALSE when the body is absent or not JSON (response.json()       *)
(* rejects), otherwise hasMessage/message are errorData.error.message.     *)
(*                                                                         *)
(* A thrown Error is told apart by its message text; kind names the text:  *)
(*   InvalidCredential    'Invalid API key. Please check your ... key'     *)
(*   RateLimited          'Rate limit exceeded. ...'                       *)
(*   ModelAccessDenied    'API key does not have access to the required    *)
(*                         model.' / '... resources.'                      *)
(*   InvalidModel         'Selected model is not available with this API   *)
(*                         key.'                                           *)
(*   CredentialMessage    `API key validation failed: ${message}`          *)
(*   InvalidKeyOrRequest  'Invalid API key format or request. ...'         *)
(*   QuotaExceeded        'Insufficient credits. ...'                      *)
(*   KeyRequired          'API key is required'                            *)
(*   RequestFailed        every other message: text is what it carries of  *)
(*                        the error body, status the status code it names  *)
(*                        (0 when it names none)                           *)
(*   ParseError           the rejection of response.json(), not caught     *)
(*   TypeError            a property read of undefined                     *)
(*   NetworkError         the rejection of fetch                           *)
(*   TransportError       the rejection of reader.read()                   *)
(***************************************************************************)
Statuses == {200, 400, 401, 402, 403, 429, 500}

\* response.ok
Ok(status) == status \in 200..299

Thrown(kind, status, text) == [kind |-> kind, status |-> status, text |-> text]

NoError == Thrown("none", 0, Empty)

\* errorData?.error?.message of a body read with .catch(() => null)
BodyMessage(body) ==
    IF body.json /\ body.hasMessage THEN body.message ELSE Empty

\* JSON.stringify(errorData): the whole body as text
JSONstringify(body) ==
    IF body.hasMessage
    THEN <<"{\"error\":{\"message\":\"">> \o body.message \o <<"\"}}">>
    ELSE <<"{}">>

\* errorData?.error?.message || `API ... failed: ${response.status}`
MessageOrStatus(body, status) ==
    IF Truthy(BodyMessage(body))
    THEN Thrown("RequestFailed", 0, BodyMessage(body))
    ELSE Thrown("RequestFailed", status, Empty)

(***************************************************************************)
(* callAPI after fetch resolved with a non-success status.                 *)
(***************************************************************************)
\* Whether callAPI awaits response.json() before it throws
CallReadsBody(p, status) ==
    CASE IsAnthropic(p) -> FALSE
      [] IsOpenAI(p) -> status \notin {401, 429}
      [] IsOpenRouter(p) -> status \notin {401, 429, 402}
      [] OTHER -> status \notin {400, 429}

\* The error callAPI throws for a non-success status
CallError(p, status, body) ==
    CASE IsGemini(p) /\ status = 400 -> Thrown("InvalidCredential", 0, Empty)
      [] ~IsGemini(p) /\ status = 401 -> Thrown("InvalidCredential", 0, Empty)
      [] status = 429 -> Thrown("RateLimited", 0, Empty)
      [] IsOpenRouter(p) /\ status = 402 -> Thrown("QuotaExceeded", 0, Empty)
      [] OTHER ->
            CASE IsAnthropic(p) -> Thrown("RequestFailed", status, Empty)
              [] IsOpenAI(p) ->
                    IF body.json
                    THEN Thrown("RequestFailed", 0, JSONstringify(body))
                    ELSE Thrown("RequestFailed", 0, Empty)
              [] IsOpenRouter(p) -> MessageOrStatus(body, status)
              [] OTHER ->
                    IF body.json
                    THEN MessageOrStatus(body, status)
                    ELSE Thrown("ParseError", 0, Empty)

(***************************************************************************)
(* validateApiKey after fetch resolved.                                    *)
(***************************************************************************)
\* Whether validateApiKey awaits response.json()
ValidateReadsBody(p, status) ==
    CASE IsOpenAI(p) -> FALSE
      [] IsOpenRouter(p) -> Ok(status)
      [] IsAnthropic(p) -> ~Ok(status) /\ status \notin {401, 429, 403}
      [] OTHER -> ~Ok(status) /\ status \notin {400, 429, 403}

\* src/anthropic.js:37-46, the 400 branch
AnthropicBadRequest(body) ==
    IF Truthy(BodyMessage(body))
    THEN IF \/ Includes(body.message, LowerModel)
            \/ Includes(body.message, CapitalModel)
         THEN Thrown("InvalidModel", 0, Empty)
         ELSE Thrown("CredentialMessage", 0, body.message)
    ELSE Thrown("InvalidKeyOrRequest", 0, Empty)

\* The error validateApiKey throws for the status, NoError when it returns
ValidateError(p, status, body) ==
    CASE IsGemini(p) /\ status = 400 -> Thrown("InvalidCredential", 0, Empty)
      [] ~IsGemini(p) /\ status = 401 -> Thrown("InvalidCredential", 0, Empty)
      [] status = 429 -> Thrown("RateLimited", 0, Empty)
      [] status = 403 -> Thrown("ModelAccessDenied", 0, Empty)
      [] IsAnthropic(p) /\ status = 400 -> AnthropicBadRequest(body)
      [] Ok(status) -> NoError
      [] OTHER ->
            CASE IsAnthropic(p) -> MessageOrStatus(body, status)
              [] IsGemini(p) ->
                    IF body.json
                    THEN MessageOrStatus(body, status)
                    ELSE Thrown("ParseError", 0, Empty)
              [] OTHER -> Thrown("RequestFailed", status, Empty)

(***************************************************************************)
(* Response bodies of a successful call and their decoders.                *)
(*                                                                         *)
(* A ToolCall {id, type: 'function', function: {name, arguments}} is       *)
(* [id, name, arguments], each a Text.  An object that the source turns    *)
(* into text with JSON.stringify is held as its JSON text.                 *)
(*                                                                         *)
(* Atomic bodies (response.json()):                                        *)
(*   OpenAI family  choice is "none" (no choices[0]), "empty" (a choice    *)
(*                  without message) or "message"; content and tool_calls  *)
(*                  are choices[0].message's                               *)
(*   Anthropic      items is data.content, blocks of type text / tool_use  *)
(*   Gemini         items is candidates[0].content.parts; a part has text  *)
(*                  (truthy or not) and, with fc, a functionCall           *)
(* Streamed bodies (reader.read()): chunks, one per read.  A chunk of the  *)
(* event-stream adapters is the lines chunk.split('\n') yields; a chunk of *)
(* src/gemini.js is the objects its brace scan completes in that read.     *)
(***************************************************************************)
ToolCall(id, name, arguments) ==
    [id |-> id, name |-> name, arguments |-> arguments]

NoToolCall == [open |-> FALSE, id |-> Empty, name |-> Empty, arguments |-> Empty]

Item(type, text, fc, id, name, args) ==
    [type |-> type, text |-> text, fc |-> fc, id |-> id, name |-> name,
     args |-> args]

TextItem(type, t) == Item(type, t, FALSE, Empty, Empty, Empty)
ToolItem(type, id, name, args) == Item(type, Empty, TRUE, id, name, args)

\* A line of an event stream, or an object of Gemini's stream.
\*   data  the line starts with 'data: '      done  its payload is [DONE]
\*   json  JSON.parse of the payload succeeds
\*   type, text, partial_json, block_type, id, name   Anthropic's event
\*   hasDelta, text          choices[0].delta and its content
\*   hasFrags, frags         delta.tool_calls is there (an array, maybe empty)
\*   items                   a Gemini object's candidates[0].content.parts
Line(data, done, json, type, text, pj, bt, id, name, hd, hf, frags, items) ==
    [data |-> data, done |-> done, json |-> json, type |-> type,
     text |-> text, partial_json |-> pj, block_type |-> bt, id |-> id,
     name |-> name, hasDelta |-> hd, hasFrags |-> hf,
     frags |-> frags, items |-> items]

NoBody ==
    [json |-> FALSE, hasMessage |-> FALSE, message |-> Empty,
     choice |-> "none", content |-> Empty, tool_calls |-> << >>,
     items |-> << >>, chunks |-> << >>]

\* The result of a decode and the decoder's working variables
DecodeStart ==
    [response |-> Empty, hasToolCalls |-> FALSE, toolCalls |-> << >>,
     currentToolCall |-> NoToolCall, currentToolCalls |-> << >>]

\* Faulty variant of GeminiId: the identifier is the time alone
GeminiIdOfTime(now, n) == <<"gemini_", ToString(now)>>

\* `gemini_${Date.now()}_${toolCalls.length}`
GeminiId(now, n) == <<"gemini_", ToString(now), "_", ToString(n)>>

\* part.functionCall.args || {} through JSON.stringify
GeminiArgs(args) == IF Truthy(args) THEN args ELSE <<"{}">>

\* src/openai.js:268-291, src/openrouter.js:246-269
OpenAIDecode(st, body) ==
    IF body.choice = "message"
    THEN [st EXCEPT
            !.response = IF Truthy(body.content) THEN body.content ELSE @,
            !.hasToolCalls = IF Len(body.tool_calls) > 0 THEN TRUE ELSE @,
            !.toolCalls = IF Len(body.tool_calls) > 0 THEN body.tool_calls ELSE @]
    ELSE st

\* src/anthropic.js:139-153, one block of data.content
AnthropicBlock(st, block) ==
    CASE block.type = "text" ->
            [st EXCEPT !.response = @ \o block.text]
      [] block.type = "tool_use" ->
            [st EXCEPT !.hasToolCalls = TRUE,
                       !.toolCalls = Append(@, ToolCall(block.id, block.name,
                                                        block.args))]
      [] OTHER -> st

\* src/unnamed/part_001:449-464, one part (text, else functionCall)
GeminiAtomicPart(st, part, now) ==
    IF Truthy(part.text)
    THEN [st EXCEPT !.response = @ \o part.text]
    ELSE IF part.fc
         THEN [st EXCEPT !.hasToolCalls = TRUE,
                         !.toolCalls = Append(@,
                            ToolCall(GeminiId(now, Len(st.toolCalls)),
                                     part.name, GeminiArgs(part.args)))]
         ELSE st

\* src/gemini.js:171-204, one part (text, and functionCall)
GeminiStreamPart(st, part, now) ==
    LET withText == IF Truthy(part.text)
                    THEN [st EXCEPT !.response = @ \o part.text]
                    ELSE st
    IN  IF part.fc
        THEN [withText EXCEPT !.hasToolCalls = TRUE,
                              !.toolCalls = Append(@,
                                 ToolCall(GeminiId(now, Len(st.toolCalls)),
                                          part.name, GeminiArgs(part.args)))]
        ELSE withText

\* src/unnamed/part_000:146-172, one parsed event
AnthropicEvent(st, ev) ==
    LET s1 == IF ev.type = "content_block_delta" /\ Truthy(ev.text)
              THEN [st EXCEPT !.response = @ \o ev.text]
              ELSE st
        s2 == IF ev.type = "content_block_start" /\ ev.block_type = "tool_use"
              THEN [s1 EXCEPT !.hasToolCalls = TRUE,
                              !.currentToolCall =
                                  [open |-> TRUE, id |-> ev.id,
                                   name |-> ev.name, arguments |-> Empty]]
              ELSE s1
        s3 == IF /\ ev.type = "content_block_delta"
                 /\ Truthy(ev.partial_json)
                 /\ s2.currentToolCall.open
              THEN [s2 EXCEPT !.currentToolCall.arguments = @ \o ev.partial_json]
              ELSE s2
    IN  IF ev.type = "content_block_stop" /\ s3.currentToolCall.open
        THEN [s3 EXCEPT
                !.toolCalls = Append(@, ToolCall(s3.currentToolCall.id,
                                                 s3.currentToolCall.name,
                                                 s3.currentToolCall.arguments)),
                !.currentToolCall = NoToolCall]
        ELSE s3

\* Position of key id in currentToolCalls, 0 when it is not a key
KeyIndex(calls, id) ==
    IF \E i \in 1..Len(calls) : calls[i].id = id
    THEN CHOOSE i \in 1..Len(calls) : calls[i].id = id
    ELSE 0

\* src/unnamed/part_001:250-270, one fragment of delta.tool_calls
OpenRouterFragment(calls, frag) ==
    LET k == KeyIndex(calls, frag.id)
    IN  IF k = 0
        THEN Append(calls, ToolCall(frag.id, frag.name, frag.arguments))
        ELSE [calls EXCEPT ![k].name = @ \o frag.name,
                           ![k].arguments = @ \o frag.arguments]

RECURSIVE OpenRouterFragments(_, _)
OpenRouterFragments(calls, frags) ==
    IF frags = << >>
    THEN calls
    ELSE OpenRouterFragments(OpenRouterFragment(calls, Head(frags)), Tail(frags))

\* src/unnamed/part_001:225-272, one parsed event
OpenRouterEvent(st, ev) ==
    IF ev.hasDelta
    THEN [st EXCEPT
            !.response = IF Truthy(ev.text) THEN @ \o ev.text ELSE @,
            !.hasToolCalls = IF ev.hasFrags THEN TRUE ELSE @,
            !.currentToolCalls = IF ev.hasFrags
                                 THEN OpenRouterFragments(@, ev.frags)
                                 ELSE @]
    ELSE st

RECURSIVE GeminiStreamParts(_, _, _)
GeminiStreamParts(st, items, now) ==
    IF items = << >>
    THEN st
    ELSE GeminiStreamParts(GeminiStreamPart(st, Head(items), now),
                           Tail(items), now)

(***************************************************************************)
(* The text of Gemini's stream, character by character.  The scanner of    *)
(* src/gemini.js tells three kinds of character apart: '{', '}' and the     *)
(* rest.  JSON.parse is modelled over a reduced syntax that keeps what the *)
(* scanner cannot see, strings and nesting:                                *)
(*     object ::= '{' member* '}'                                          *)
(*     member ::= string | 'f' | 'g' | object                              *)
(*     string ::= '"' character* '"'      (any character but '"')          *)
(* A string stands for a part {text: string}, f and g for a part with a    *)
(* functionCall of that name without args, and a nested object for the     *)
(* levels candidates[0].content.parts; any other text is a SyntaxError.    *)
(* A part holds one kind of data, as in Gemini's API.                      *)
(***************************************************************************)
Quote == "\""

ParseStart ==
    [ok |-> TRUE, depth |-> 0, closed |-> FALSE, inString |-> FALSE,
     string |-> Empty, parts |-> << >>]

ParseChar(s, char) ==
    CASE ~s.ok -> s
      [] s.inString /\ char = Quote ->
            [s EXCEPT !.inString = FALSE,
                      !.parts = Append(@, TextItem("part", s.string))]
      [] s.inString -> [s EXCEPT !.string = Append(@, char)]
      [] s.closed -> [s EXCEPT !.ok = FALSE]
      [] char = "{" -> [s EXCEPT !.depth = @ + 1]
      [] s.depth = 0 -> [s EXCEPT !.ok = FALSE]
      [] char = "}" -> [s EXCEPT !.depth = @ - 1, !.closed = (s.depth = 1)]
      [] char = Quote -> [s EXCEPT !.inString = TRUE, !.string = Empty]
      [] char \in {"f", "g"} ->
            [s EXCEPT !.parts = Append(@, ToolItem("part", Empty, <<char>>,
                                                   Empty))]
      [] OTHER -> [s EXCEPT !.ok = FALSE]

RECURSIVE ParseChars(_, _)
ParseChars(s, text) ==
    IF text = << >> THEN s ELSE ParseChars(ParseChar(s, Head(text)), Tail(text))

\* JSON.parse(currentJsonObject): ok is FALSE when it throws
JSONparse(text) ==
    LET s == ParseChars(ParseStart, text)
    IN  [ok |-> s.ok /\ s.closed /\ ~s.inString, parts |-> s.parts]

\* let bracketCount = 0; let inJsonObject = false; let currentJsonObject = ''
ScanStart(st) ==
    [inJsonObject |-> FALSE, bracketCount |-> 0, currentJsonObject |-> Empty,
     st |-> st]

\* try { JSON.parse ... the parts ... } catch (e) { skip }
ObjectFound(st, text, now) ==
    IF JSONparse(text).ok
    THEN GeminiStreamParts(st, JSONparse(text).parts, now)
    ELSE st

\* One turn of the loop over the buffer
ScanChar(s, char, now) ==
    CASE char = "{" ->
            [s EXCEPT !.inJsonObject = TRUE,
                      !.bracketCount = (IF s.inJsonObject THEN @ ELSE 0) + 1,
                      !.currentJsonObject =
                          (IF s.inJsonObject THEN @ ELSE Empty) \o <<char>>]
      [] char = "}" /\ s.inJsonObject /\ s.bracketCount - 1 = 0 ->
            [inJsonObject |-> FALSE, bracketCount |-> 0,
             currentJsonObject |-> Empty,
             st |-> ObjectFound(s.st, s.currentJsonObject \o <<char>>, now)]
      [] char = "}" /\ s.inJsonObject ->
            [s EXCEPT !.bracketCount = @ - 1,
                      !.currentJsonObject = @ \o <<char>>]
      [] char # "}" /\ s.inJsonObject ->
            [s EXCEPT !.currentJsonObject = @ \o <<char>>]
      [] OTHER -> s

RECURSIVE ScanBuffer(_, _, _)
ScanBuffer(s, buffer, now) ==
    IF buffer = << >>
    THEN s
    ELSE ScanBuffer(ScanChar(s, Head(buffer), now), Tail(buffer), now)

\* Faulty variant of GeminiRead: the object cut by the end of the chunk is
\* dropped instead of kept for the next read
GeminiReadDrops(r, chunk, now) ==
    [buffer |-> Empty, st |-> ScanBuffer(ScanStart(r.st), r.buffer \o chunk, now).st]

\* One read: buffer += chunk, the loop over the buffer, and the part of the
\* buffer kept for the next read (the object that is still open)
GeminiRead(r, chunk, now) ==
    LET s == ScanBuffer(ScanStart(r.st), r.buffer \o chunk, now)
    IN  [buffer |-> IF s.inJsonObject THEN s.currentJsonObject ELSE Empty,
         st |-> s.st]

\* Faulty variant of StreamEntry: a 'data: ' line that does not parse ends
\* the decode with what the later lines bring alone
StreamEntryAborts(p, st, e, now) ==
    CASE p = "gemini" ->
            IF e.json THEN GeminiStreamParts(st, e.items, now) ELSE st
      [] e.data /\ ~e.done /\ ~e.json -> DecodeStart
      [] ~(e.data /\ ~e.done /\ e.json) -> st
      [] p = "anthropic_sse" -> AnthropicEvent(st, e)
      [] OTHER -> OpenRouterEvent(st, e)

\* One entry of a chunk: a line of an event stream (skipped unless it starts
\* with 'data: ', is not [DONE] and parses), or an object of Gemini's stream
\* (skipped unless it parses)
StreamEntry(p, st, e, now) ==
    CASE p = "gemini" ->
            IF e.json THEN GeminiStreamParts(st, e.items, now) ELSE st
      [] ~(e.data /\ ~e.done /\ e.json) -> st
      [] p = "anthropic_sse" -> AnthropicEvent(st, e)
      [] OTHER -> OpenRouterEvent(st, e)

RECURSIVE StreamChunk(_, _, _, _)
StreamChunk(p, st, chunk, now) ==
    IF chunk = << >>
    THEN st
    ELSE StreamChunk(p, StreamEntry(p, st, Head(chunk), now), Tail(chunk), now)

\* A key of a JavaScript object that is an array index ("0", "1", ...):
\* Object.values lists such keys first, in ascending order
IndexKey(id) ==
    CASE id = <<"0">> -> 0
      [] id = <<"1">> -> 1
      [] id = <<"2">> -> 2
      [] OTHER -> -1

RECURSIVE IndexKeysFrom(_, _)
IndexKeysFrom(calls, n) ==
    IF n > 2
    THEN << >>
    ELSE (IF KeyIndex(calls, <<ToString(n)>>) # 0
          THEN <<calls[KeyIndex(calls, <<ToString(n)>>)]>>
          ELSE << >>) \o IndexKeysFrom(calls, n + 1)

\* Object.values(currentToolCalls)
ObjectValues(calls) ==
    IndexKeysFrom(calls, 0) \o SelectSeq(calls, LAMBDA c : IndexKey(c.id) = -1)

\* The statements of the streaming streamResponse after its read loop
StreamEnd(p, st) ==
    IF p = "openrouter_sse"
    THEN [st EXCEPT !.toolCalls = ObjectValues(st.currentToolCalls)]
    ELSE st

RECURSIVE AtomicItems(_, _, _, _)
AtomicItems(p, st, items, now) ==
    IF items = << >>
    THEN st
    ELSE AtomicItems(p,
                     IF IsAnthropic(p)
                     THEN AnthropicBlock(st, Head(items))
                     ELSE GeminiAtomicPart(st, Head(items), now),
                     Tail(items), now)

\* The atomic streamResponse after `const data = await response.json()`
AtomicDecode(p, body, now) ==
    IF InLine(p)
    THEN OpenAIDecode(DecodeStart, body)
    ELSE AtomicItems(p, DecodeStart, body.items, now)

\* message.content of an absent message: the atomic OpenAI-family decoder
\* throws a TypeError before it touches the history
AtomicThrows(p, body) == InLine(p) /\ body.choice = "empty"

(***************************************************************************)
(* Inputs: what callers pass and what the servers answer.                  *)
(***************************************************************************)
\* System prompts, the empty string among them
Prompts == {Empty, <<"P">>}

\* The text a caller gives addToHistory: the text of a system prompt
NoteTexts == {<<"P">>}

\* The roles a caller gives addToHistory
Roles == {"system", "assistant"}

\* The message of a callAPI: a string, or the object a caller builds from a
\* text block and createImageContent (createMultimodalMessage's result)
MultimodalObject(p) ==
    Message("user", IF IsGemini(p) THEN "parts" ELSE "blocks",
            <<TextBlock(<<"hi">>), createImageContent(p, <<"png">>)>>)

\* An Anthropic-shaped object given to src/gemini.js (its third branch)
ForeignObject ==
    Message("user", "blocks",
            <<TextBlock(<<"hi">>), createImageContent("anthropic", <<"png">>)>>)

ErrorBody(json, hasMessage, message) ==
    [json |-> json, hasMessage |-> hasMessage, message |-> message,
     choice |-> "none", content |-> Empty, tool_calls |-> << >>,
     items |-> << >>, chunks |-> << >>]

\* Error bodies answered to callAPI: not JSON, JSON without error.message,
\* JSON with a message
CallErrorBodies ==
    {ErrorBody(FALSE, FALSE, Empty), ErrorBody(TRUE, FALSE, Empty),
     ErrorBody(TRUE, TRUE, <<"o", "v", "e", "r">>)}

AtomicBody(choice, content, tool_calls, items) ==
    [json |-> TRUE, hasMessage |-> FALSE, message |-> Empty,
     choice |-> choice, content |-> content, tool_calls |-> tool_calls,
     items |-> items, chunks |-> << >>]

StreamBody(chunks) ==
    [json |-> TRUE, hasMessage |-> FALSE, message |-> Empty,
     choice |-> "none", content |-> Empty, tool_calls |-> << >>,
     items |-> << >>, chunks |-> chunks]

NoLine == Line(FALSE, FALSE, FALSE, "", Empty, Empty, "", Empty, Empty,
               FALSE, FALSE, << >>, << >>)

\* 'data: ' lines of Anthropic's event stream
TextDelta(t) == [NoLine EXCEPT !.data = TRUE, !.json = TRUE,
                               !.type = "content_block_delta", !.text = t]
ToolStart(id, name) == [NoLine EXCEPT !.data = TRUE, !.json = TRUE,
                                      !.type = "content_block_start",
                                      !.block_type = "tool_use",
                                      !.id = id, !.name = name]
JsonDelta(pj) == [NoLine EXCEPT !.data = TRUE, !.json = TRUE,
                                !.type = "content_block_delta",
                                !.partial_json = pj]
BlockStop == [NoLine EXCEPT !.data = TRUE, !.json = TRUE,
                            !.type = "content_block_stop"]
\* 'data: ' lines of the OpenAI-style event stream
ContentDelta(t) == [NoLine EXCEPT !.data = TRUE, !.json = TRUE,
                                  !.hasDelta = TRUE, !.text = t]
ToolDelta(frags) == [NoLine EXCEPT !.data = TRUE, !.json = TRUE,
                                   !.hasDelta = TRUE, !.hasFrags = TRUE,
                                   !.frags = frags]
\* a 'data: ' line whose payload does not parse, and the terminal line
BadLine == [NoLine EXCEPT !.data = TRUE]
DoneLine == [NoLine EXCEPT !.data = TRUE, !.done = TRUE]
\* objects of Gemini's stream
GeminiObject(items) == [NoLine EXCEPT !.json = TRUE, !.items = items]
BadObject == NoLine

\* Bodies answered to a successful callAPI
SuccessBodies(p) ==
    CASE InLine(p) /\ ~Streaming(p) ->
            {AtomicBody("message", <<"yes">>, << >>, << >>),
             AtomicBody("message", Empty,
                        <<ToolCall(<<"c">>, <<"f">>, <<"{}">>)>>, << >>),
             AtomicBody("empty", Empty, << >>, << >>)}
      [] p = "anthropic" ->
            {AtomicBody("none", Empty, << >>,
                        <<TextItem("text", <<"yes">>),
                          ToolItem("tool_use", <<"c">>, <<"f">>, <<"{}">>)>>),
             AtomicBody("none", Empty, << >>,
                        <<ToolItem("tool_use", <<"c">>, <<"f">>, <<"{}">>)>>)}
      [] p = "gemini_atomic" ->
            {AtomicBody("none", Empty, << >>, <<TextItem("part", <<"yes">>)>>),
             AtomicBody("none", Empty, << >>,
                        <<ToolItem("part", Empty, <<"f">>, Empty)>>)}
      [] p = "gemini" ->
            {StreamBody(<< <<GeminiObject(<<TextItem("part", <<"yes">>)>>)>>,
                           <<BadObject,
                             GeminiObject(<<ToolItem("part", Empty, <<"f">>,
                                                     Empty)>>)>> >>),
             StreamBody(<< <<GeminiObject(<<ToolItem("part", Empty, <<"f">>,
                                                     Empty)>>)>> >>)}
      [] p = "anthropic_sse" ->
            {StreamBody(<< <<TextDelta(<<"yes">>), BadLine>>,
                           <<ToolStart(<<"c">>, <<"f">>), JsonDelta(<<"{}">>),
                             BlockStop>> >>),
             StreamBody(<< <<ToolStart(<<"c">>, <<"f">>),
                             JsonDelta(<<"{}">>)>> >>)}
      [] OTHER ->
            {StreamBody(<< <<ContentDelta(<<"yes">>), BadLine>>,
                           <<ToolDelta(<<ToolCall(<<"c">>, <<"f">>, <<"{">>)>>),
                             ToolDelta(<<ToolCall(<<"c">>, Empty, <<"}">>)>>),
                             DoneLine>> >>),
             StreamBody(<< <<ToolDelta(<< >>)>> >>)}

\* Values of Date.now() during a decode
Times == {7}

\* Error bodies answered to validateApiKey; the messages spell "model" in
\* three letter cases, or not at all
ValidationMessages ==
    {<<"m", "o", "d", "e", "l">>, <<"n", "o", " ", "M", "o", "d", "e", "l">>,
     <<"M", "O", "D", "E", "L">>, <<"k", "e", "y">>}

CatalogEntry(id, name, vision) == [id |-> id, name |-> name, vision |-> vision]

ValidationBody(json, hasMessage, message, hasData, data) ==
    [json |-> json, hasMessage |-> hasMessage, message |-> message,
     hasData |-> hasData, data |-> data]

NoValidationBody == ValidationBody(FALSE, FALSE, Empty, FALSE, << >>)

ValidationErrorBodies ==
    {NoValidationBody, ValidationBody(TRUE, FALSE, Empty, FALSE, << >>),
     ValidationBody(TRUE, TRUE, Empty, FALSE, << >>)}
        \cup {ValidationBody(TRUE, TRUE, m, FALSE, << >>) :
                m \in ValidationMessages}

\* Bodies of GET /models: not JSON, JSON without data, and catalogs with no,
\* one and no image-capable model
CatalogBodies ==
    {NoValidationBody, ValidationBody(TRUE, FALSE, Empty, FALSE, << >>),
     ValidationBody(TRUE, FALSE, Empty, TRUE, << >>),
     ValidationBody(TRUE, FALSE, Empty, TRUE,
                    <<CatalogEntry(<<"t">>, <<"Text">>, FALSE),
                      CatalogEntry(<<"v">>, Empty, TRUE)>>)}

\* Bodies answered to validateApiKey's request
ValidationBodies(status) ==
    IF Ok(status) THEN CatalogBodies ELSE ValidationErrorBodies

\* API keys given to validateApiKey
Keys == {Empty, <<"sk">>}

(***************************************************************************)
(* OpenRouter's model catalog.                                             *)
(***************************************************************************)
ModelEntry(value, name) == [value |-> value, name |-> name]

\* this.defaultModel: null, or a model's value
Null == [isNull |-> TRUE, value |-> Empty]
Model(value) == [isNull |-> FALSE, value |-> value]

\* src/openrouter.js:135-140, the list validateApiKey substitutes
ValidateFallback ==
    <<ModelEntry(<<"openai/gpt-4o">>, <<"GPT-4o">>),
      ModelEntry(<<"openai/gpt-4o-mini">>, <<"GPT-4o Mini">>),
      ModelEntry(<<"anthropic/claude-3-5-sonnet">>, <<"Claude 3.5 Sonnet">>),
      ModelEntry(<<"anthropic/claude-3-sonnet">>, <<"Claude 3 Sonnet">>)>>

\* data.data.filter(image-capable).map({value: id, name: name || id})
VisionModels(data) ==
    LET vision == SelectSeq(data, LAMBDA m : m.vision)
    IN  [i \in 1..Len(vision) |->
            ModelEntry(vision[i].id,
                       IF Truthy(vision[i].name) THEN vision[i].name
                       ELSE vision[i].id)]

\* this.models after validateApiKey parsed the catalog
ValidatedModels(p, data) ==
    IF p = "openrouter" /\ Len(VisionModels(data)) = 0
    THEN ValidateFallback
    ELSE VisionModels(data)

\* The list loadModels substitutes in its catch block:
\* src/openrouter.js:82-88, src/unnamed/part_001:62-68
LoadFallback(p) ==
    IF p = "openrouter"
    THEN <<ModelEntry(<<"openai/gpt-4o">>, <<"GPT-4o">>),
           ModelEntry(<<"openai/gpt-4o-mini">>, <<"GPT-4o Mini">>),
           ModelEntry(<<"anthropic/claude-3-5-sonnet">>, <<"Claude 3.5 Sonnet">>),
           ModelEntry(<<"anthropic/claude-3-sonnet">>, <<"Claude 3 Sonnet">>),
           ModelEntry(<<"anthropic/claude-3-opus">>, <<"Claude 3 Opus">>)>>
    ELSE <<ModelEntry(<<"anthropic/claude-3-haiku">>, <<"Claude 3 Haiku">>),
           ModelEntry(<<"anthropic/claude-3-sonnet">>, <<"Claude 3 Sonnet">>),
           ModelEntry(<<"anthropic/claude-3-opus">>, <<"Claude 3 Opus">>),
           ModelEntry(<<"openai/gpt-4o">>, <<"GPT-4o">>),
           ModelEntry(<<"openai/gpt-4o-mini">>, <<"GPT-4o Mini">>)>>

\* src/openrouter.js:54-59, the list loadModels substitutes for a catalog
\* without image-capable models
NoVisionFallback ==
    <<ModelEntry(<<"openai/gpt-4o">>, <<"GPT-4o">>),
      ModelEntry(<<"openai/gpt-4o-mini">>, <<"GPT-4o Mini">>),
      ModelEntry(<<"anthropic/claude-3-5-sonnet">>, <<"Claude 3.5 Sonnet">>),
      ModelEntry(<<"anthropic/claude-3-sonnet">>, <<"Claude 3 Sonnet">>)>>

\* this.models after loadModels parsed the catalog
LoadedModels(p, data) ==
    IF p = "openrouter" /\ Len(VisionModels(data)) = 0
    THEN NoVisionFallback
    ELSE VisionModels(data)

(***************************************************************************)
(* State.                                                                  *)
(*   provider             the adapter this behaviour follows               *)
(*   conversationHistory  this.conversationHistory                         *)
(*   systemPrompt         this.systemPrompt ('' for the OpenAI family,     *)
(*                        which has no such field)                         *)
(*   calls                the callAPI invocations so far, by call number;  *)
(*                        a call that returned or threw is Closed          *)
(*   validation           the validateApiKey invocation in progress        *)
(*   models, defaultModel, modelsLoaded   OpenRouter's catalog fields      *)
(*   sent                 the request the last step handed to fetch for a  *)
(*                        callAPI (its call number and encoded params);    *)
(*                        NoRequest when the last step sent none           *)
(*   outcome              what the last step returned to, or threw at, the *)
(*                        caller of the operation it ended; NoOutcome when *)
(*                        the last step ended no operation                 *)
(* History variables, used to state properties:                            *)
(*   rounds      successful callAPI + streamResponse round trips since the *)
(*               last reset, -1 once anything else touched the             *)
(*               conversation (addToHistory, a failed or overlapping call, *)
(*               the reply of a call older than the reset)                 *)
(*   lastPrompt  the prompt of the last setSystemPrompt, unset by          *)
(*               clearHistory                                              *)
(*   serial      no callAPI began while another call was in flight         *)
(***************************************************************************)
VARIABLES provider, conversationHistory, systemPrompt, calls, validation,
          models, defaultModel, modelsLoaded, sent, outcome, rounds,
          lastPrompt, serial, reader, loading, built, selection

vars == <<provider, conversationHistory, systemPrompt, calls, validation,
          models, defaultModel, modelsLoaded, sent, outcome, rounds,
          lastPrompt, serial, reader, loading, built, selection>>

\* What no operation on a conversation changes: the adapter in use, and the
\* variables of the operations that are specified on their own.  reader is a
\* response body being decoded by itself, outside any conversation; loading
\* is OpenRouter's loadModels: phase is "idle" before the first call, "fetch"
\* and "body" while it awaits fetch and response.json(), and once it has
\* ended "cached" (the list was there), "unkeyed" (no key is stored),
\* "rejected" (fetch rejected), "refused" (non-success status) or "read"
\* (response.json() settled); status and body are the response's; built is
\* the last createMultimodalMessage: its arguments and the message returned.
\* selection is the item 'ai-model' of localStorage (stored, with the adapter
\* in use when it was stored) and the getCurrentModel made since (asked, got).
fixed == <<provider, reader, loading, built, selection>>

NoSelection ==
    [stored |-> Null, storedFor |-> "none", asked |-> "none", got |-> Null]

NoMessage ==
    [made |-> FALSE, textContent |-> Empty, base64Images |-> NoImage,
     message |-> NoObject]

NoReader ==
    [body |-> << >>, rest |-> << >>, buffer |-> << >>, st |-> DecodeStart,
     carried |-> FALSE, done |-> FALSE]

catalog == <<models, defaultModel, modelsLoaded>>

NoPrompt == [set |-> FALSE, text |-> Empty]

\* A call: phase is
\*   "fetch"     callAPI awaits fetch
\*   "errbody"   callAPI awaits response.json() of a failed response
\*   "returned"  callAPI returned the response
\*   "reading"   streamResponse awaits response.json() or reader.read()
\*   "closed"    callAPI threw, or streamResponse returned or threw
\* status is the response's; st, rest, locked are streamResponse's decoder
\* variables, the chunks not yet read and whether the reader is locked;
\* released counts the calls of reader.releaseLock().
\* stale is a history variable: the conversation was reset after the call
\* began.
Closed ==
    [phase |-> "closed", stale |-> FALSE, status |-> 0,
     st |-> DecodeStart, rest |-> << >>, locked |-> FALSE, released |-> 0]

\* Faulty variant of Finally: the reader is left as it is
FinallySkipped(p, call) == call

\* finally { reader.releaseLock() } of the streaming decoders, on the way out
\* of streamResponse; the atomic decoders have no reader
Finally(p, call) ==
    IF Streaming(p) /\ call.phase = "reading"
    THEN [call EXCEPT !.locked = FALSE, !.released = @ + 1]
    ELSE call

InFlight(c) == c \in 1..Len(calls) /\ calls[c].phase # "closed"

\* A call of the current conversation is in flight
OpenCall == \E c \in 1..Len(calls) : InFlight(c) /\ ~calls[c].stale

NoOutcome ==
    [op |-> "none", call |-> 0, stale |-> FALSE, status |-> 0, json |-> FALSE,
     hasMessage |-> FALSE, message |-> Empty, error |-> NoError,
     result |-> DecodeStart, locked |-> FALSE,
     released |-> 0]

\* An operation threw error after the response (status, body), if any; stale
\* tells that the conversation was reset while the call was in flight
Threw(op, call, stale, status, body, error) ==
    [op |-> op, call |-> call, stale |-> stale, status |-> status,
     json |-> body.json,
     hasMessage |-> body.hasMessage, message |-> body.message,
     error |-> error, result |-> DecodeStart, locked |-> FALSE,
     released |-> 0]

\* An operation returned
Returned(op, call, stale, status, result) ==
    [op |-> op, call |-> call, stale |-> stale, status |-> status,
     json |-> FALSE,
     hasMessage |-> FALSE, message |-> Empty, error |-> NoError,
     result |-> result, locked |-> FALSE, released |-> 0]

\* The outcome of the call that ends, with its reader as the call leaves it
Exited(out, call) ==
    [out EXCEPT !.locked = call.locked, !.released = call.released]

Idle == [phase |-> "idle", status |-> 0, body |-> NoValidationBody]

\* The adapter's own variables
adapter ==
    <<conversationHistory, systemPrompt, calls, validation, models,
      defaultModel, modelsLoaded, sent, outcome, rounds, lastPrompt, serial>>

\* The adapter after its constructor
Constructed ==
    /\ conversationHistory = << >>
    /\ systemPrompt = Empty
    /\ calls = << >>
    /\ validation = Idle
    /\ models = << >>
    /\ defaultModel = Null
    /\ modelsLoaded = FALSE
    /\ sent = NoRequest
    /\ outcome = NoOutcome
    /\ rounds = 0
    /\ lastPrompt = NoPrompt
    /\ serial = TRUE

Init ==
    /\ provider \in Providers
    /\ Constructed
    /\ reader = NoReader
    /\ loading = Idle
    /\ built = NoMessage
    /\ selection = NoSelection

\* The calls in flight when the conversation is reset belong to the old one
Outdated(cs) ==
    [c \in 1..Len(cs) |->
        IF cs[c].phase # "closed" THEN [cs[c] EXCEPT !.stale = TRUE] ELSE cs[c]]

\* Faulty variant of SetSystemPrompt: the prompt is added to the history that
\* is there instead of replacing it
SetSystemPromptAppends(prompt) ==
    /\ conversationHistory' =
          conversationHistory \o
          [i \in 1..Len(PromptHistory(provider, prompt)) |->
              Tagged(PromptHistory(provider, prompt)[i], "setSystemPrompt", 0)]
    /\ systemPrompt' = PromptField(provider, prompt)
    /\ calls' = Outdated(calls)
    /\ rounds' = 0
    /\ lastPrompt' = [set |-> TRUE, text |-> prompt]
    /\ sent' = NoRequest
    /\ outcome' = Returned("setSystemPrompt", 0, FALSE, 0, DecodeStart)
    /\ UNCHANGED <<fixed, validation, catalog, serial>>

\* Faulty variant of ClearHistory: the stored prompt outlives the reset
ClearHistoryKeepsPrompt ==
    /\ conversationHistory' = << >>
    /\ systemPrompt' = systemPrompt
    /\ calls' = Outdated(calls)
    /\ rounds' = 0
    /\ lastPrompt' = NoPrompt
    /\ sent' = NoRequest
    /\ outcome' = Returned("clearHistory", 0, FALSE, 0, DecodeStart)
    /\ UNCHANGED <<fixed, validation, catalog, serial>>

(***************************************************************************)
(* setSystemPrompt(systemPrompt)                                           *)
(***************************************************************************)
SetSystemPrompt(prompt) ==
    /\ conversationHistory' =
          [i \in 1..Len(PromptHistory(provider, prompt)) |->
              Tagged(PromptHistory(provider, prompt)[i], "setSystemPrompt", 0)]
    /\ systemPrompt' = PromptField(provider, prompt)
    /\ calls' = Outdated(calls)
    /\ rounds' = 0
    /\ lastPrompt' = [set |-> TRUE, text |-> prompt]
    /\ sent' = NoRequest
    /\ outcome' = Returned("setSystemPrompt", 0, FALSE, 0, DecodeStart)
    /\ UNCHANGED <<fixed, validation, catalog, serial>>

(***************************************************************************)
(* clearHistory()                                                          *)
(***************************************************************************)
ClearHistory ==
    /\ conversationHistory' = << >>
    /\ systemPrompt' = Empty
    /\ calls' = Outdated(calls)
    /\ rounds' = 0
    /\ lastPrompt' = NoPrompt
    /\ sent' = NoRequest
    /\ outcome' = Returned("clearHistory", 0, FALSE, 0, DecodeStart)
    /\ UNCHANGED <<fixed, validation, catalog, serial>>

\* The entries of a history that addToHistory pushed
Notes(h) == SelectSeq(h, LAMBDA m : m.op = "addToHistory")

(***************************************************************************)
(* addToHistory(message) / addToHistory(role, content), called from        *)
(* outside the adapter                                                     *)
(***************************************************************************)
\* Faulty variant of AddToHistory: the entry is put in front of the history
AddToHistoryInFront(role, text) ==
    /\ Len(Notes(conversationHistory)) < MaxNotes
    /\ conversationHistory' =
          <<Tagged(HistoryEntry(provider, role, text), "addToHistory", 0)>>
          \o conversationHistory
    /\ rounds' = -1
    /\ sent' = NoRequest
    /\ outcome' = NoOutcome
    /\ UNCHANGED <<fixed, systemPrompt, calls, validation, catalog,
                   lastPrompt, serial>>

AddToHistory(role, text) ==
    /\ Len(Notes(conversationHistory)) < MaxNotes
    /\ conversationHistory' =
          Append(conversationHistory,
                 Tagged(HistoryEntry(provider, role, text), "addToHistory", 0))
    /\ rounds' = -1
    /\ sent' = NoRequest
    /\ outcome' = NoOutcome
    /\ UNCHANGED <<fixed, systemPrompt, calls, validation, catalog,
                   lastPrompt, serial>>

(***************************************************************************)
(* callAPI(message, model, tools), up to `await fetch(...)`: the user turn *)
(* is pushed, params are encoded from the history, the request is sent.    *)
(***************************************************************************)
CallAPI(message, ntools) ==
    /\ Len(calls) < MaxCalls
    /\ LET id == Len(calls) + 1
           history == Append(conversationHistory,
                             Tagged(UserTurn(provider, message), "callAPI", id))
       IN  /\ conversationHistory' = history
           /\ calls' = Append(calls, [Closed EXCEPT !.phase = "fetch"])
           /\ sent' = Encode(provider, id, history, systemPrompt, ntools)
    /\ rounds' = IF rounds >= 0 /\ ~OpenCall THEN rounds ELSE -1
    /\ serial' = (serial /\ \A c \in 1..Len(calls) : ~InFlight(c))
    /\ outcome' = NoOutcome
    /\ UNCHANGED <<fixed, systemPrompt, validation, catalog, lastPrompt>>

\* Faulty variant of CallThrows: the failed call takes the last entry of the
\* history back
CallThrowsRollback(c, op, status, body, error) ==
    /\ calls' = [calls EXCEPT ![c] = Closed]
    /\ conversationHistory' =
          IF conversationHistory = << >>
          THEN << >>
          ELSE SubSeq(conversationHistory, 1, Len(conversationHistory) - 1)
    /\ sent' = NoRequest
    /\ outcome' = Exited(Threw(op, c, calls[c].stale, status, body, error),
                         Finally(provider, calls[c]))
    /\ rounds' = IF calls[c].stale THEN rounds ELSE -1
    /\ UNCHANGED <<fixed, systemPrompt, validation, catalog, lastPrompt,
                   serial>>

\* The call c ends by a throw; the conversation stays as it is
CallThrows(c, op, status, body, error) ==
    /\ calls' = [calls EXCEPT ![c] = Closed]
    /\ sent' = NoRequest
    /\ outcome' = Exited(Threw(op, c, calls[c].stale, status, body, error),
                         Finally(provider, calls[c]))
    /\ rounds' = IF calls[c].stale THEN rounds ELSE -1
    /\ UNCHANGED <<fixed, conversationHistory, systemPrompt, validation,
                   catalog, lastPrompt, serial>>

\* fetch rejects: callAPI throws the network error
FetchReject(c) ==
    /\ InFlight(c)
    /\ calls[c].phase = "fetch"
    /\ CallThrows(c, "callAPI", 0, NoBody, Thrown("NetworkError", 0, Empty))

\* fetch resolves with a failed status whose branch reads no body: callAPI
\* throws at once; body is what the response carries, unread
FetchFails(c, status, body) ==
    /\ InFlight(c)
    /\ calls[c].phase = "fetch"
    /\ ~Ok(status)
    /\ ~CallReadsBody(provider, status)
    /\ CallThrows(c, "callAPI", status, body, CallError(provider, status, body))

\* fetch resolves with a failed status whose branch awaits response.json()
FetchFailsBody(c, status) ==
    /\ InFlight(c)
    /\ calls[c].phase = "fetch"
    /\ ~Ok(status)
    /\ CallReadsBody(provider, status)
    /\ calls' = [calls EXCEPT ![c].phase = "errbody", ![c].status = status]
    /\ sent' = NoRequest
    /\ outcome' = NoOutcome
    /\ UNCHANGED <<fixed, conversationHistory, systemPrompt, validation,
                   catalog, rounds, lastPrompt, serial>>

\* response.json() of the failed response settles on body: callAPI throws
CallErrorBody(c, body) ==
    /\ InFlight(c)
    /\ calls[c].phase = "errbody"
    /\ CallThrows(c, "callAPI", calls[c].status, body,
                  CallError(provider, calls[c].status, body))

\* fetch resolves with a success status: callAPI returns the response
FetchSucceeds(c, status) ==
    /\ InFlight(c)
    /\ calls[c].phase = "fetch"
    /\ Ok(status)
    /\ calls' = [calls EXCEPT ![c].phase = "returned", ![c].status = status]
    /\ sent' = NoRequest
    /\ outcome' = NoOutcome
    /\ UNCHANGED <<fixed, conversationHistory, systemPrompt, validation,
                   catalog, rounds, lastPrompt, serial>>

(***************************************************************************)
(* streamResponse(response, ...), up to its first await: response.json()   *)
(* (atomic) or reader.read() with the reader acquired (streaming).  body    *)
(* holds the chunks the response's stream is going to deliver.             *)
(***************************************************************************)
StreamResponse(c, body) ==
    /\ InFlight(c)
    /\ calls[c].phase = "returned"
    /\ calls' = [calls EXCEPT ![c].phase = "reading",
                              ![c].st = DecodeStart,
                              ![c].rest = body.chunks,
                              ![c].locked = Streaming(provider)]
    /\ sent' = NoRequest
    /\ outcome' = NoOutcome
    /\ UNCHANGED <<fixed, conversationHistory, systemPrompt, validation,
                   catalog, rounds, lastPrompt, serial>>

\* Faulty variant of StreamReturns: the assistant turn is put before the last
\* entry of the history
StreamReturnsBeforeLast(c, st) ==
    /\ conversationHistory' =
          IF conversationHistory = << >>
          THEN <<Tagged(AssistantTurn(provider, st.response),
                        "streamResponse", c)>>
          ELSE SubSeq(conversationHistory, 1, Len(conversationHistory) - 1)
               \o <<Tagged(AssistantTurn(provider, st.response),
                           "streamResponse", c),
                    conversationHistory[Len(conversationHistory)]>>
    /\ calls' = [calls EXCEPT ![c] = Closed]
    /\ sent' = NoRequest
    /\ outcome' = Exited(Returned("streamResponse", c, calls[c].stale,
                                  calls[c].status, st),
                         Finally(provider, calls[c]))
    /\ rounds' = IF rounds >= 0 /\ ~calls[c].stale THEN rounds + 1 ELSE -1
    /\ UNCHANGED <<fixed, systemPrompt, validation, catalog,
                   lastPrompt, serial>>

\* Faulty variant of StreamReturns: an empty text is not recorded
StreamReturnsIfText(c, st) ==
    /\ conversationHistory' =
          IF Truthy(st.response)
          THEN Append(conversationHistory,
                      Tagged(AssistantTurn(provider, st.response),
                             "streamResponse", c))
          ELSE conversationHistory
    /\ calls' = [calls EXCEPT ![c] = Closed]
    /\ sent' = NoRequest
    /\ outcome' = Exited(Returned("streamResponse", c, calls[c].stale,
                                  calls[c].status, st),
                         Finally(provider, calls[c]))
    /\ rounds' = IF rounds >= 0 /\ ~calls[c].stale THEN rounds + 1 ELSE -1
    /\ UNCHANGED <<fixed, systemPrompt, validation, catalog,
                   lastPrompt, serial>>

\* Faulty variant of StreamReturns: the reply of a call that began before the
\* conversation was reset is dropped
StreamReturnsUnlessStale(c, st) ==
    /\ conversationHistory' =
          IF calls[c].stale
          THEN conversationHistory
          ELSE Append(conversationHistory,
                      Tagged(AssistantTurn(provider, st.response),
                             "streamResponse", c))
    /\ calls' = [calls EXCEPT ![c] = Closed]
    /\ sent' = NoRequest
    /\ outcome' = Exited(Returned("streamResponse", c, calls[c].stale,
                                  calls[c].status, st),
                         Finally(provider, calls[c]))
    /\ rounds' = IF rounds >= 0 /\ ~calls[c].stale THEN rounds + 1 ELSE -1
    /\ UNCHANGED <<fixed, systemPrompt, validation, catalog,
                   lastPrompt, serial>>

\* streamResponse's last statements: the assistant turn is pushed and the
\* result returned
StreamReturns(c, st) ==
    /\ conversationHistory' =
          Append(conversationHistory,
                 Tagged(AssistantTurn(provider, st.response),
                        "streamResponse", c))
    /\ calls' = [calls EXCEPT ![c] = Closed]
    /\ sent' = NoRequest
    /\ outcome' = Exited(Returned("streamResponse", c, calls[c].stale,
                                  calls[c].status, st),
                         Finally(provider, calls[c]))
    /\ rounds' = IF rounds >= 0 /\ ~calls[c].stale THEN rounds + 1 ELSE -1
    /\ UNCHANGED <<fixed, systemPrompt, validation, catalog,
                   lastPrompt, serial>>

\* Atomic: response.json() resolves with body, which is decoded in one pass
JsonResolves(c, body, now) ==
    /\ InFlight(c)
    /\ calls[c].phase = "reading"
    /\ ~Streaming(provider)
    /\ IF AtomicThrows(provider, body)
       THEN CallThrows(c, "streamResponse", calls[c].status, NoBody,
                       Thrown("TypeError", 0, Empty))
       ELSE StreamReturns(c, AtomicDecode(provider, body, now))

\* Streaming: reader.read() resolves with a chunk, which is decoded
ReadChunk(c, now) ==
    /\ InFlight(c)
    /\ calls[c].phase = "reading"
    /\ Streaming(provider)
    /\ calls[c].rest # << >>
    /\ calls' = [calls EXCEPT
                    ![c].st = StreamChunk(provider, calls[c].st,
                                          Head(calls[c].rest), now),
                    ![c].rest = Tail(calls[c].rest)]
    /\ sent' = NoRequest
    /\ outcome' = NoOutcome
    /\ UNCHANGED <<fixed, conversationHistory, systemPrompt, validation,
                   catalog, rounds, lastPrompt, serial>>

\* Streaming: reader.read() resolves with done; finally releases the reader
ReadDone(c) ==
    /\ InFlight(c)
    /\ calls[c].phase = "reading"
    /\ Streaming(provider)
    /\ calls[c].rest = << >>
    /\ StreamReturns(c, StreamEnd(provider, calls[c].st))

\* Faulty variant of ReadRejects: the text decoded so far is pushed as the
\* assistant turn before the error is thrown
ReadRejectsPartial(c) ==
    /\ InFlight(c)
    /\ calls[c].phase = "reading"
    /\ conversationHistory' =
          Append(conversationHistory,
                 Tagged(AssistantTurn(provider, calls[c].st.response),
                        "streamResponse", c))
    /\ calls' = [calls EXCEPT ![c] = Closed]
    /\ sent' = NoRequest
    /\ outcome' = Exited(Threw("streamResponse", c, calls[c].stale,
                               calls[c].status, NoBody,
                               Thrown("TransportError", 0, Empty)),
                         Finally(provider, calls[c]))
    /\ rounds' = IF calls[c].stale THEN rounds ELSE -1
    /\ UNCHANGED <<fixed, systemPrompt, validation, catalog, lastPrompt,
                   serial>>

\* response.json() or reader.read() rejects: streamResponse throws (the
\* streaming decoders release the reader in finally on the way)
ReadRejects(c) ==
    /\ InFlight(c)
    /\ calls[c].phase = "reading"
    /\ CallThrows(c, "streamResponse", calls[c].status, NoBody,
                  Thrown("TransportError", 0, Empty))

(***************************************************************************)
(* validateApiKey(key[, model])                                            *)
(***************************************************************************)
\* Faulty variant of CatalogReset: the list is emptied, the default model and
\* the loaded mark are left as they are
CatalogEmptied ==
    /\ models' = << >>
    /\ UNCHANGED <<defaultModel, modelsLoaded>>

\* The catch block of OpenRouter's validateApiKey
CatalogReset ==
    /\ models' = << >>
    /\ defaultModel' = Null
    /\ modelsLoaded' = FALSE

\* Faulty variant of ValidateThrows: the failed validation resets the
\* conversation along with the catalog
ValidateThrowsClears(status, body, error) ==
    /\ validation' = Idle
    /\ conversationHistory' = << >>
    /\ systemPrompt' = Empty
    /\ sent' = NoRequest
    /\ outcome' = Threw("validateApiKey", 0, FALSE, status, body, error)
    /\ IF IsOpenRouter(provider) THEN CatalogReset ELSE UNCHANGED catalog
    /\ UNCHANGED <<fixed, calls, rounds, lastPrompt, serial>>

\* validateApiKey throws error; OpenRouter resets its catalog on the way
ValidateThrows(status, body, error) ==
    /\ validation' = Idle
    /\ sent' = NoRequest
    /\ outcome' = Threw("validateApiKey", 0, FALSE, status, body, error)
    /\ IF IsOpenRouter(provider) THEN CatalogReset ELSE UNCHANGED catalog
    /\ UNCHANGED <<fixed, conversationHistory, systemPrompt, calls,
                   rounds, lastPrompt, serial>>

ValidateReturns(status) ==
    /\ validation' = Idle
    /\ sent' = NoRequest
    /\ outcome' = Returned("validateApiKey", 0, FALSE, status, DecodeStart)
    /\ UNCHANGED <<fixed, conversationHistory, systemPrompt, calls,
                   rounds, lastPrompt, serial>>

\* Up to `await fetch(...)`.  stored: localStorage holds an OpenRouter key.
\* OpenRouter throws at once when no key is given and none is stored.
ValidateApiKey(key, stored) ==
    /\ validation.phase = "idle"
    /\ IF IsOpenRouter(provider) /\ ~Truthy(key) /\ ~stored
       THEN /\ outcome' = Threw("validateApiKey", 0, FALSE, 0, NoValidationBody,
                                Thrown("KeyRequired", 0, Empty))
            /\ UNCHANGED validation
       ELSE /\ validation' = [Idle EXCEPT !.phase = "fetch"]
            /\ outcome' = NoOutcome
    /\ sent' = NoRequest
    /\ UNCHANGED <<fixed, conversationHistory, systemPrompt, calls,
                   catalog, rounds, lastPrompt, serial>>

\* fetch rejects
ValidateFetchReject ==
    /\ validation.phase = "fetch"
    /\ ValidateThrows(0, NoValidationBody, Thrown("NetworkError", 0, Empty))

\* fetch resolves: the status decides, or response.json() is awaited first
ValidateFetchResolve(status, body) ==
    /\ validation.phase = "fetch"
    /\ IF ValidateReadsBody(provider, status)
       THEN /\ validation' = [phase |-> "body", status |-> status,
                              body |-> body]
            /\ sent' = NoRequest
            /\ outcome' = NoOutcome
            /\ UNCHANGED <<fixed, conversationHistory, systemPrompt,
                           calls, catalog, rounds, lastPrompt, serial>>
       ELSE IF ValidateError(provider, status, body) = NoError
            THEN ValidateReturns(status) /\ UNCHANGED catalog
            ELSE ValidateThrows(status, body,
                                ValidateError(provider, status, body))

\* response.json() settles.  OpenRouter reads the catalog of a successful
\* response; the others read the body of a failed one.
ValidateBody ==
    /\ validation.phase = "body"
    /\ LET status == validation.status
           body == validation.body
       IN  IF IsOpenRouter(provider)
           THEN IF ~body.json
                THEN ValidateThrows(status, body, Thrown("ParseError", 0, Empty))
                ELSE IF ~body.hasData
                     THEN ValidateThrows(status, body,
                                         Thrown("TypeError", 0, Empty))
                     ELSE /\ models' = ValidatedModels(provider, body.data)
                          /\ defaultModel' =
                                IF Len(ValidatedModels(provider, body.data)) > 0
                                THEN Model(ValidatedModels(provider,
                                                           body.data)[1].value)
                                ELSE defaultModel
                          /\ modelsLoaded' = TRUE
                          /\ ValidateReturns(status)
           ELSE ValidateThrows(status, body,
                               ValidateError(provider, status, body))

(***************************************************************************)
(* Specifications.                                                         *)
(*                                                                         *)
(* Spec: the conversation of one adapter under every interleaving of       *)
(* setSystemPrompt, clearHistory, addToHistory and the steps of up to      *)
(* MaxCalls callAPI / streamResponse pairs.                                *)
(*                                                                         *)
(* SpecValidate: validateApiKey, step by step, between setSystemPrompt,    *)
(* clearHistory and addToHistory.                                          *)
(***************************************************************************)
\* The (message, tools) arguments of callAPI
CallArguments(p) ==
    {<<StringInput(<<"ask">>), 1>>, <<ObjectInput(MultimodalObject(p)), 0>>}
        \cup (IF p = "gemini" THEN {<<ObjectInput(ForeignObject), 0>>} ELSE {})

Conversation ==
    \/ \E prompt \in Prompts : SetSystemPrompt(prompt)
    \/ ClearHistory
    \/ \E role \in Roles, text \in NoteTexts : AddToHistory(role, text)

Next ==
    \/ Conversation
    \/ \E args \in CallArguments(provider) : CallAPI(args[1], args[2])
    \/ \E c \in 1..MaxCalls : FetchReject(c)
    \/ \E c \in 1..MaxCalls, status \in Statuses, body \in CallErrorBodies :
          FetchFails(c, status, body)
    \/ \E c \in 1..MaxCalls, status \in Statuses : FetchFailsBody(c, status)
    \/ \E c \in 1..MaxCalls, body \in CallErrorBodies : CallErrorBody(c, body)
    \/ \E c \in 1..MaxCalls : FetchSucceeds(c, 200)
    \/ \E c \in 1..MaxCalls, body \in SuccessBodies(provider) :
          StreamResponse(c, body)
    \/ \E c \in 1..MaxCalls, body \in SuccessBodies(provider), now \in Times :
          JsonResolves(c, body, now)
    \/ \E c \in 1..MaxCalls, now \in Times : ReadChunk(c, now)
    \/ \E c \in 1..MaxCalls : ReadDone(c)
    \/ \E c \in 1..MaxCalls : ReadRejects(c)

Spec == Init /\ [][Next]_vars

NextValidate ==
    \/ Conversation
    \/ \E key \in Keys, stored \in BOOLEAN : ValidateApiKey(key, stored)
    \/ ValidateFetchReject
    \/ \E status \in Statuses :
          \E body \in ValidationBodies(status) :
              ValidateFetchResolve(status, body)
    \/ ValidateBody

SpecValidate == Init /\ [][NextValidate]_vars

(***************************************************************************)
(* loadModels() of the OpenRouter adapters, step by step                   *)
(***************************************************************************)
\* loadModels returns this.models
LoadReturns(phase, status, body) ==
    /\ loading' = [phase |-> phase, status |-> status, body |-> body]
    /\ sent' = NoRequest
    /\ outcome' = Returned("loadModels", 0, FALSE, status, DecodeStart)

\* The catch block of loadModels: the fallback list, and the error thrown on
LoadCatches(phase, status, body, error) ==
    /\ models' = LoadFallback(provider)
    /\ defaultModel' = Model(<<"openai/gpt-4o">>)
    /\ modelsLoaded' = TRUE
    /\ loading' = [phase |-> phase, status |-> status, body |-> body]
    /\ sent' = NoRequest
    /\ outcome' = Threw("loadModels", 0, FALSE, status, body, error)
    /\ UNCHANGED <<provider, reader, built, selection, conversationHistory,
                   systemPrompt, calls, validation, rounds, lastPrompt,
                   serial>>

\* Faulty variant of LoadModels: the catalog is fetched again at every call
LoadModelsAgain(stored) ==
    /\ IsOpenRouter(provider)
    /\ loading.phase \notin {"fetch", "body"}
    /\ IF ~stored
       THEN /\ loading' = [Idle EXCEPT !.phase = "unkeyed"]
            /\ sent' = NoRequest
            /\ outcome' = Threw("loadModels", 0, FALSE, 0, NoValidationBody,
                                Thrown("KeyRequiredToLoad", 0, Empty))
       ELSE /\ loading' = [Idle EXCEPT !.phase = "fetch"]
            /\ sent' = NoRequest
            /\ outcome' = NoOutcome
    /\ UNCHANGED <<provider, reader, built, selection, conversationHistory,
                   systemPrompt, calls, validation, catalog, rounds,
                   lastPrompt, serial>>

\* Up to `await fetch(...)`.  stored: localStorage holds an OpenRouter key.
LoadModels(stored) ==
    /\ IsOpenRouter(provider)
    /\ loading.phase \notin {"fetch", "body"}
    /\ IF modelsLoaded /\ Len(models) > 0
       THEN LoadReturns("cached", 0, NoValidationBody)
       ELSE IF ~stored
            THEN /\ loading' = [Idle EXCEPT !.phase = "unkeyed"]
                 /\ sent' = NoRequest
                 /\ outcome' = Threw("loadModels", 0, FALSE, 0, NoValidationBody,
                                     Thrown("KeyRequiredToLoad", 0, Empty))
            ELSE /\ loading' = [Idle EXCEPT !.phase = "fetch"]
                 /\ sent' = NoRequest
                 /\ outcome' = NoOutcome
    /\ UNCHANGED <<provider, reader, built, selection, conversationHistory,
                   systemPrompt, calls, validation, catalog, rounds,
                   lastPrompt, serial>>

\* fetch rejects
LoadFetchReject ==
    /\ loading.phase = "fetch"
    /\ LoadCatches("rejected", 0, NoValidationBody,
                   Thrown("NetworkError", 0, Empty))

\* fetch resolves: a non-success status throws into the catch block,
\* otherwise response.json() is awaited
LoadFetchResolve(status, body) ==
    /\ loading.phase = "fetch"
    /\ IF ~Ok(status)
       THEN LoadCatches("refused", status, NoValidationBody,
                        Thrown("FetchModelsFailed", status, Empty))
       ELSE /\ loading' = [phase |-> "body", status |-> status, body |-> body]
            /\ sent' = NoRequest
            /\ outcome' = NoOutcome
            /\ UNCHANGED <<provider, reader, built, selection, conversationHistory,
                           systemPrompt, calls, validation, catalog, rounds,
                           lastPrompt, serial>>

\* response.json() settles
LoadBody ==
    /\ loading.phase = "body"
    /\ LET status == loading.status
           body == loading.body
       IN  IF ~body.json
           THEN LoadCatches("read", status, body, Thrown("ParseError", 0, Empty))
           ELSE IF ~body.hasData
                THEN LoadCatches("read", status, body,
                                 Thrown("TypeError", 0, Empty))
                ELSE /\ models' = LoadedModels(provider, body.data)
                     /\ defaultModel' =
                           IF Len(LoadedModels(provider, body.data)) > 0
                           THEN Model(LoadedModels(provider, body.data)[1].value)
                           ELSE defaultModel
                     /\ modelsLoaded' = TRUE
                     /\ LoadReturns("read", status, body)
                     /\ UNCHANGED <<provider, reader, built, selection,
                                    conversationHistory, systemPrompt, calls,
                                    validation, rounds, lastPrompt, serial>>

NextModels ==
    \/ \E stored \in BOOLEAN : LoadModels(stored)
    \/ LoadFetchReject
    \/ \E status \in Statuses, body \in CatalogBodies :
          LoadFetchResolve(status, body)
    \/ LoadBody
    \/ \E key \in Keys, stored \in BOOLEAN : ValidateApiKey(key, stored)
    \/ ValidateFetchReject
    \/ \E status \in Statuses :
          \E body \in ValidationBodies(status) :
              ValidateFetchResolve(status, body)
    \/ ValidateBody

InitModels ==
    /\ provider \in {"openrouter", "openrouter_sse"}
    /\ Constructed
    /\ reader = NoReader
    /\ loading = Idle
    /\ built = NoMessage
    /\ selection = NoSelection

SpecModels == InitModels /\ [][NextModels]_vars

(***************************************************************************)
(* createMultimodalMessage by itself, on the adapters that have it         *)
(***************************************************************************)
MaxImages == 2

ImageValues == {Empty, <<"i">>, <<"j">>}

ImageArguments ==
    {Single(value) : value \in ImageValues}
        \cup {Array(items) :
                items \in UNION {[1..n -> ImageValues] : n \in 0..MaxImages}}

InitMessage ==
    /\ provider \in {"openai", "openrouter", "anthropic", "gemini",
                      "gemini_atomic"}
    /\ Constructed
    /\ reader = NoReader
    /\ loading = Idle
    /\ built = NoMessage
    /\ selection = NoSelection

CreateMultimodalMessage(textContent, base64Images) ==
    /\ built' = [made |-> TRUE, textContent |-> textContent,
                 base64Images |-> base64Images,
                 message |-> createMultimodalMessage(provider, textContent,
                                                     base64Images)]
    /\ UNCHANGED <<provider, adapter, reader, loading, selection>>

NextMessage ==
    \E textContent \in {Empty, <<"hi">>}, base64Images \in ImageArguments :
        CreateMultimodalMessage(textContent, base64Images)

SpecMessage == InitMessage /\ [][NextMessage]_vars

(***************************************************************************)
(* Gemini's stream decoded by itself: a body of concatenated objects is    *)
(* read in chunks cut anywhere, a character or more at a time.             *)
(***************************************************************************)
MaxObjects == 3

\* Texts between which a body is cut: well-formed objects ({"a"}, {f}, {fg},
\* {{"b"}f}), objects whose string holds a brace ({"{"}, {"}"}), an object
\* that is not JSON ({a}), truncated objects ({, {"a) and the separator
GeminiTexts ==
    {<<"{", Quote, "a", Quote, "}">>,
     <<"{", "f", "}">>,
     <<"{", "f", "g", "}">>,
     <<"{", "{", Quote, "b", Quote, "}", "f", "}">>,
     <<"{", Quote, "{", Quote, "}">>,
     <<"{", Quote, "}", Quote, "}">>,
     <<"{", "a", "}">>,
     <<"{">>,
     <<"{", Quote, "a">>,
     <<",">>}

GeminiBodies ==
    UNION {[1..n -> GeminiTexts] : n \in 1..MaxObjects}

Range(f) == {f[i] : i \in DOMAIN f}

RECURSIVE Concat(_)
Concat(texts) ==
    IF texts = << >> THEN << >> ELSE Head(texts) \o Concat(Tail(texts))

\* Date.now() at the reads
ReadTimes == {7, 8}

InitGemini ==
    /\ provider \in {"gemini", "gemini_atomic"}
    /\ Constructed
    /\ loading = Idle
    /\ built = NoMessage
    /\ selection = NoSelection
    /\ \E body \in GeminiBodies :
          reader = [NoReader EXCEPT !.body = body, !.rest = Concat(body)]

\* reader.read() resolves with the next n characters
GeminiReadChunk(n, now) ==
    /\ provider = "gemini"
    /\ ~reader.done
    /\ n \in 1..Len(reader.rest)
    /\ LET r == GeminiRead([buffer |-> reader.buffer, st |-> reader.st],
                           SubSeq(reader.rest, 1, n), now)
       IN  reader' = [reader EXCEPT
                        !.rest = SubSeq(@, n + 1, Len(@)),
                        !.buffer = r.buffer,
                        !.st = r.st,
                        !.carried = @ \/ (r.buffer # Empty /\ n < Len(reader.rest))]
    /\ UNCHANGED <<provider, adapter, loading, built, selection>>

\* reader.read() resolves with done
GeminiReadDone ==
    /\ provider = "gemini"
    /\ ~reader.done
    /\ reader.rest = << >>
    /\ reader' = [reader EXCEPT !.done = TRUE]
    /\ UNCHANGED <<provider, adapter, loading, built, selection>>

\* The atomic decoder of src/unnamed/part_001: response.json() settles on
\* the whole body, which is decoded in one pass when it is one object (the
\* adapter throws the rejection otherwise)
GeminiJsonResolves(now) ==
    /\ provider = "gemini_atomic"
    /\ ~reader.done
    /\ reader' = [reader EXCEPT
                     !.rest = << >>,
                     !.st = IF JSONparse(reader.rest).ok
                            THEN AtomicDecode(provider,
                                     AtomicBody("none", Empty, << >>,
                                                JSONparse(reader.rest).parts),
                                     now)
                            ELSE @,
                     !.done = TRUE]
    /\ UNCHANGED <<provider, adapter, loading, built, selection>>

NextGemini ==
    \/ \E n \in 1..(MaxObjects * 8), now \in ReadTimes : GeminiReadChunk(n, now)
    \/ GeminiReadDone
    \/ \E now \in ReadTimes : GeminiJsonResolves(now)

SpecGemini == InitGemini /\ [][NextGemini]_vars

(***************************************************************************)
(* An event stream decoded by itself (src/unnamed/part_000 and part_001):  *)
(* a body of lines is read in chunks of whole lines.                       *)
(***************************************************************************)
MaxLines == 3

\* Fragments of delta.tool_calls: an identifier (two of them are array
\* indices as JavaScript reads keys) with a piece of the name, of the
\* arguments, or of both
Fragments ==
    {ToolCall(id, piece[1], piece[2]) :
        id \in {<<"x">>, <<"1">>, <<"0">>},
        piece \in {<<<<"f">>, Empty>>, <<Empty, <<"{">>>>, <<<<"g">>, <<"}">>>>}}

EventLines(p) ==
    IF p = "anthropic_sse"
    THEN {TextDelta(<<"a">>), ToolStart(<<"c">>, <<"f">>), JsonDelta(<<"{}">>),
          BlockStop, BadLine, DoneLine, NoLine}
    ELSE {ContentDelta(<<"a">>), BadLine, DoneLine, NoLine}
         \cup {ToolDelta(<<frag>>) : frag \in Fragments}

EventBodies(p) ==
    UNION {[1..n -> EventLines(p)] : n \in 1..MaxLines}

InitEvents ==
    /\ provider \in {"anthropic_sse", "openrouter_sse"}
    /\ Constructed
    /\ loading = Idle
    /\ built = NoMessage
    /\ selection = NoSelection
    /\ \E body \in EventBodies(provider) :
          reader = [NoReader EXCEPT !.body = body, !.rest = body]

\* reader.read() resolves with the next n lines
EventsReadChunk(n) ==
    /\ ~reader.done
    /\ n \in 1..Len(reader.rest)
    /\ reader' = [reader EXCEPT
                     !.rest = SubSeq(@, n + 1, Len(@)),
                     !.st = StreamChunk(provider, @,
                                        SubSeq(reader.rest, 1, n), 7),
                     !.carried = @ \/ n < Len(reader.rest)]
    /\ UNCHANGED <<provider, adapter, loading, built, selection>>

\* reader.read() resolves with done
EventsReadDone ==
    /\ ~reader.done
    /\ reader.rest = << >>
    /\ reader' = [reader EXCEPT !.st = StreamEnd(provider, @), !.done = TRUE]
    /\ UNCHANGED <<provider, adapter, loading, built, selection>>

NextEvents ==
    \/ \E n \in 1..MaxLines : EventsReadChunk(n)
    \/ EventsReadDone

SpecEvents == InitEvents /\ [][NextEvents]_vars

(***************************************************************************)
(* Properties of the conversation (checked under Spec).                    *)
(***************************************************************************)
\* A reply's role as the adapter stores it: Gemini renames assistant to model
IsAssistantRole(p, role) ==
    role = "assistant" \/ (IsGemini(p) /\ role = "model")

\* N round trips went through since the reset and nothing else touched the
\* conversation
Settled == rounds >= 0 /\ ~OpenCall

\* The 2n entries of h after the first k alternate user, assistant
Alternates(h, k, n) ==
    \A i \in 1..(2 * n) :
        IF i % 2 = 1
        THEN h[k + i].role = "user"
        ELSE IsAssistantRole(provider, h[k + i].role)

\* C1 as stated: after N successful callAPI + streamResponse round trips on
\* a fresh or just-reset conversation (a reset by setSystemPrompt included)
\* the history holds exactly 2N messages, alternating user, assistant.
\* Refuted: OpenAI and OpenRouter keep the system message of setSystemPrompt
\* as the first entry, so the history holds 2N + 1.
C1_ExactlyTwoN ==
    Settled =>
        /\ Len(conversationHistory) = 2 * rounds
        /\ Alternates(conversationHistory, 0, rounds)

\* C1 amended: after N successful round trips on a fresh or just-reset
\* conversation the history holds the in-line system message first when the
\* reset was a setSystemPrompt of OpenAI or OpenRouter, and after it exactly
\* 2N messages alternating user, assistant (stored as model by Gemini),
\* whether or not the responses carried tool calls.
C1_RoundTrips ==
    Settled =>
        LET k == IF InLine(provider) /\ lastPrompt.set THEN 1 ELSE 0
        IN  /\ Len(conversationHistory) = k + 2 * rounds
            /\ k = 1 =>
                  Wire(conversationHistory)[1] =
                      Message("system", "string",
                              <<TextBlock(lastPrompt.text)>>)
            /\ Alternates(conversationHistory, k, rounds)

\* Two round trips after a setSystemPrompt of an in-line adapter, the second
\* reply carrying tool calls
C1_TwoRoundTrips ==
    /\ rounds = 2
    /\ ~OpenCall
    /\ InLine(provider)
    /\ lastPrompt.set
    /\ outcome.op = "streamResponse"
    /\ outcome.result.hasToolCalls

\* The request of the last step follows a setSystemPrompt(p) with no
\* clearHistory since
PromptedRequest == sent.call # 0 /\ lastPrompt.set

\* How many in-line system messages of the request carry p
InLineCount ==
    Len(SelectSeq(sent.messages,
                  LAMBDA m : /\ m.role = "system"
                             /\ m.content = <<TextBlock(lastPrompt.text)>>))

\* How many side-channel fields of the request carry p
SideCount == IF sent.hasSystem /\ sent.system = lastPrompt.text THEN 1 ELSE 0

\* p travels once, through the adapter's channel, and not through the other
CarriedOnce ==
    IF InLine(provider)
    THEN /\ InLineCount = 1
         /\ sent.messages[1] =
               Message("system", "string", <<TextBlock(lastPrompt.text)>>)
         /\ SideCount = 0
    ELSE /\ SideCount = 1
         /\ InLineCount = 0

\* C2 as stated: for every provider and every prompt p, the request encoded
\* by a callAPI that follows setSystemPrompt(p) carries p exactly once
\* through the provider's channel and never through both.
\* Refuted: Anthropic and Gemini send no system field for the empty prompt,
\* and a system message given to addToHistory is sent in-line beside p.
C2_EveryPrompt == PromptedRequest => CarriedOnce

\* addToHistory pushed no system message since the reset
NoSystemNote ==
    \A i \in 1..Len(conversationHistory) :
        conversationHistory[i].op = "addToHistory"
            => conversationHistory[i].role # "system"

\* C2 amended: the request encoded by a callAPI that follows
\* setSystemPrompt(p), with no clearHistory and no addToHistory of a system
\* message in between, carries p exactly once through the provider's channel
\* (first in-line system message for OpenAI/OpenRouter, system for
\* Anthropic, systemInstruction for Gemini) and never through both, for
\* every p of OpenAI/OpenRouter and every non-empty p of Anthropic/Gemini;
\* for the empty p Anthropic and Gemini send no system field.
C2_SystemPromptOnce ==
    /\ (/\ PromptedRequest
        /\ NoSystemNote
        /\ (SideChannel(provider) => Truthy(lastPrompt.text)))
           => CarriedOnce
    /\ (PromptedRequest /\ SideChannel(provider) /\ ~Truthy(lastPrompt.text))
           => ~sent.hasSystem

\* The second request of a conversation that setSystemPrompt opened with a
\* non-empty prompt, a round trip behind it
C2_SecondRequest ==
    /\ PromptedRequest
    /\ Truthy(lastPrompt.text)
    /\ NoSystemNote
    /\ rounds = 1
    /\ Len(sent.messages) >= 3

\* The history h holds the user turn that call c pushed
UserTurnAt(h, c) ==
    \E i \in 1..Len(h) :
        h[i].op = "callAPI" /\ h[i].call = c /\ h[i].role = "user"

\* C3: callAPI appends the user turn to the history before the request is
\* issued (the request of a callAPI step encodes a history that ends with
\* the call's user turn), and the turn is still in the history when the call
\* fails, by a rejected fetch or by a non-success status, unless the
\* conversation was reset in between.
C3_UserTurnKept ==
    /\ sent.call # 0 =>
          /\ conversationHistory # << >>
          /\ conversationHistory[Len(conversationHistory)].op = "callAPI"
          /\ conversationHistory[Len(conversationHistory)].call = sent.call
          /\ conversationHistory[Len(conversationHistory)].role = "user"
          /\ sent.messages = Wire(conversationHistory)
    /\ (outcome.op = "callAPI" /\ outcome.error # NoError /\ ~outcome.stale)
          => UserTurnAt(conversationHistory, outcome.call)

\* callAPI just failed on a 402, its user turn recorded
C3_FailedCall ==
    /\ outcome.op = "callAPI"
    /\ outcome.status = 402
    /\ ~outcome.stale
    /\ UserTurnAt(conversationHistory, outcome.call)

\* The history h holds a reply of call c
ReplyAt(h, c) ==
    \E i \in 1..Len(h) : h[i].op = "streamResponse" /\ h[i].call = c

\* C4: streamResponse appends the assistant turn only after the body has
\* been decoded: no call still in flight has a reply in the history, a
\* streamResponse that ends without appending has thrown, and when
\* reader.read() or response.json() rejects the transport error reaches the
\* caller and the history is left unchanged.
C4_AppendAfterDecode ==
    [][/\ \A c \in 1..Len(calls') :
              calls'[c].phase # "closed" => ~ReplyAt(conversationHistory', c)
       /\ \A c \in 1..Len(calls) :
              (/\ calls[c].phase = "reading"
               /\ calls'[c].phase = "closed"
               /\ conversationHistory' = conversationHistory)
                  => outcome'.error # NoError
       /\ (/\ outcome'.op = "streamResponse"
           /\ outcome'.error.kind = "TransportError")
              => conversationHistory' = conversationHistory]_vars

\* A streaming streamResponse just threw the transport error; the user turn
\* of its call is the last entry of the history
C4_ReadRejected ==
    /\ outcome.op = "streamResponse"
    /\ outcome.error.kind = "TransportError"
    /\ Streaming(provider)
    /\ ~outcome.stale
    /\ conversationHistory # << >>
    /\ conversationHistory[Len(conversationHistory)].op = "callAPI"
    /\ conversationHistory[Len(conversationHistory)].call = outcome.call

\* C5: two callAPI / streamResponse pairs must not overlap.  The request of
\* a callAPI issued while another call is in flight is encoded without that
\* call's reply; and when the calls are serialized (none begins while
\* another is in flight) each assistant turn follows the user turn of its
\* own call with no entry of another call in between (only what
\* addToHistory pushed meanwhile).  The raced order itself is the reachable
\* state C5_RacedOrder.
C5_SerializedCalls ==
    [][/\ sent'.call # 0 =>
              \A d \in 1..Len(calls') :
                  (d # sent'.call /\ calls'[d].phase # "closed")
                      => ~ReplyAt(conversationHistory', d)
       /\ (/\ outcome'.op = "streamResponse"
           /\ outcome'.error = NoError
           /\ ~outcome'.stale
           /\ serial')
              => LET h == conversationHistory'
                     n == Len(h)
                 IN  /\ h[n].op = "streamResponse"
                     /\ h[n].call = outcome'.call
                     /\ \E j \in 1..(n - 1) :
                           /\ h[j].op = "callAPI"
                           /\ h[j].call = outcome'.call
                           /\ \A k \in (j + 1)..(n - 1) :
                                 h[k].op = "addToHistory"]_vars

\* Both user turns precede both assistant turns: the second request was
\* encoded without the first call's reply
C5_RacedOrder ==
    \E i1, i2, j1, j2 \in 1..Len(conversationHistory) :
        /\ conversationHistory[i1].op = "callAPI"
        /\ conversationHistory[i1].call = 1
        /\ conversationHistory[i2].op = "callAPI"
        /\ conversationHistory[i2].call = 2
        /\ conversationHistory[j1].op = "streamResponse"
        /\ conversationHistory[j1].call = 1
        /\ conversationHistory[j2].op = "streamResponse"
        /\ conversationHistory[j2].call = 2
        /\ i1 < i2
        /\ i2 < j1
        /\ i2 < j2

(***************************************************************************)
(* Properties of validateApiKey (checked under SpecValidate) and of the    *)
(* errors of callAPI (checked under Spec).                                 *)
(***************************************************************************)
\* C6: validateApiKey never changes the conversation history or the
\* side-channel system prompt, for every provider and every response status:
\* no step of a validation (its start, the settling of fetch, the settling
\* of response.json()) touches either.
C6_ValidationKeepsConversation ==
    [][(validation' # validation \/ outcome'.op = "validateApiKey")
          => /\ conversationHistory' = conversationHistory
             /\ systemPrompt' = systemPrompt]_vars

\* A validation just failed on an adapter that holds a system prompt and a
\* history entry
C6_ValidatedWithConversation ==
    /\ outcome.op = "validateApiKey"
    /\ outcome.error # NoError
    /\ outcome.status # 0
    /\ Truthy(systemPrompt)
    /\ conversationHistory # << >>

\* The message of the error body an operation ended on, '' when there is none
OutcomeMessage ==
    IF outcome.json /\ outcome.hasMessage THEN outcome.message ELSE Empty

\* C7 as stated: for every provider validateApiKey fails with the
\* invalid-credential error on 401, with the invalid-model error on a 400
\* whose body's message contains the word "model", with the rate-limited
\* error on 429, and succeeds only on a success status.
C7_ValidationTaxonomy ==
    outcome.op = "validateApiKey" =>
        /\ outcome.status = 401 => outcome.error.kind = "InvalidCredential"
        /\ (outcome.status = 400 /\ Includes(OutcomeMessage, LowerModel))
              => outcome.error.kind = "InvalidModel"
        /\ outcome.status = 429 => outcome.error.kind = "RateLimited"
        /\ outcome.error = NoError => Ok(outcome.status)

\* A text in lower case (over the letters the error messages use): the
\* letter-case-blind reading of "contains model"
LowerChar(c) ==
    CASE c = "M" -> "m"
      [] c = "O" -> "o"
      [] c = "D" -> "d"
      [] c = "E" -> "e"
      [] c = "L" -> "l"
      [] OTHER -> c

ToLowerCase(s) == [i \in 1..Len(s) |-> LowerChar(s[i])]

\* C8 as stated: on a 400 Anthropic's validateApiKey reports the
\* invalid-model error exactly when the body's message contains "model" in
\* any letter case, a credential error carrying the message otherwise, and
\* the generic invalid-key-or-request error when the body is absent, not
\* JSON or without a message.
C8_ModelInAnyCase ==
    (/\ IsAnthropic(provider)
     /\ outcome.op = "validateApiKey"
     /\ outcome.status = 400)
        => IF Truthy(OutcomeMessage)
           THEN IF Includes(ToLowerCase(OutcomeMessage), LowerModel)
                THEN outcome.error.kind = "InvalidModel"
                ELSE /\ outcome.error.kind = "CredentialMessage"
                     /\ outcome.error.text = OutcomeMessage
           ELSE outcome.error.kind = "InvalidKeyOrRequest"

\* C9 as stated: callAPI maps 401 to the invalid-credential error, 429 to
\* the rate-limited error, 403 to the model-access-denied error, 402
\* (OpenRouter only) to the quota-exceeded error and any other non-success
\* status to a request-failed error, for every provider; a call that ends
\* on a status ends on exactly that one error.
C9_CallTaxonomy ==
    (outcome.op = "callAPI" /\ outcome.status # 0) =>
        /\ ~Ok(outcome.status)
        /\ outcome.error.kind =
              CASE outcome.status = 401 -> "InvalidCredential"
                [] outcome.status = 429 -> "RateLimited"
                [] outcome.status = 403 -> "ModelAccessDenied"
                [] outcome.status = 402 /\ IsOpenRouter(provider) ->
                      "QuotaExceeded"
                [] OTHER -> "RequestFailed"

\* C10 as stated: for a non-success status outside the mapped codes the
\* error of callAPI and of validateApiKey is a request-failed error that
\* carries the message of the vendor's error body, or, when the body is
\* absent or not JSON, a generic message naming the status code; no other
\* exception escapes, for every provider.
C10_BestEffortMessage ==
    (/\ outcome.op \in {"callAPI", "validateApiKey"}
     /\ outcome.status \notin {0, 400, 401, 402, 403, 429}
     /\ ~Ok(outcome.status))
        => /\ outcome.error.kind = "RequestFailed"
           /\ Truthy(OutcomeMessage)
                 => Includes(outcome.error.text, OutcomeMessage)
           /\ ~outcome.json => outcome.error.status = outcome.status

(***************************************************************************)
(* Resets.                                                                 *)
(***************************************************************************)
\* C11: after setSystemPrompt(p), whatever the conversation was before, the
\* side-channel adapters (Anthropic, Gemini) hold p as the stored prompt and
\* an empty history, and the in-line adapters (OpenAI, OpenRouter) hold the
\* history [{role: system, content: p}] and nothing else; the state after the
\* operation depends on p alone, so that an earlier setSystemPrompt leaves
\* no trace.
C11_PromptReplacesState ==
    outcome.op = "setSystemPrompt" =>
        /\ lastPrompt.set
        /\ IF SideChannel(provider)
           THEN /\ conversationHistory = << >>
                /\ systemPrompt = lastPrompt.text
           ELSE /\ Wire(conversationHistory) =
                      <<Message("system", "string",
                                <<TextBlock(lastPrompt.text)>>)>>
                /\ systemPrompt = Empty

\* setSystemPrompt has just replaced a conversation in which a prompt had
\* been set and a call was in flight
C11_PromptOverConversation ==
    /\ outcome.op = "setSystemPrompt"
    /\ lastPrompt.text = <<"P">>
    /\ \E c \in 1..Len(calls) : calls[c].stale

\* C12: after clearHistory the history is empty and the stored prompt is
\* empty for every adapter, and the request of a callAPI that follows with
\* nothing appended in between carries the new user turn only, and no system
\* prompt in the messages or in the side channel.
C12_ClearedConversation ==
    /\ outcome.op = "clearHistory" =>
          /\ conversationHistory = << >>
          /\ systemPrompt = Empty
    /\ (sent.call # 0 /\ rounds = 0 /\ ~lastPrompt.set) =>
          /\ Len(sent.messages) = 1
          /\ sent.messages[1].role = "user"
          /\ sent.messages = Wire(conversationHistory)
          /\ ~sent.hasSystem
          /\ sent.system = Empty

\* The second call is the first operation after a clearHistory that ended the
\* conversation of the first call
C12_CallAfterClear ==
    /\ sent.call = 2
    /\ rounds = 0
    /\ ~lastPrompt.set
    /\ SideChannel(provider)

IsPrefix(h, k) == Len(h) <= Len(k) /\ SubSeq(k, 1, Len(h)) = h

\* C13: the history is append-only between resets: every step that is not a
\* setSystemPrompt or a clearHistory (addToHistory, callAPI and the steps of
\* its failure, streamResponse and the steps of its decoding) leaves the
\* messages that are there unchanged and in place, so that the history before
\* the step is a prefix of the history after it.
C13_AppendOnly ==
    [][outcome'.op \notin {"setSystemPrompt", "clearHistory"} =>
          IsPrefix(conversationHistory, conversationHistory')]_vars

\* A reply has been appended behind a note and a user turn
C13_GrownHistory ==
    /\ outcome.op = "streamResponse"
    /\ outcome.error = NoError
    /\ Len(conversationHistory) >= 3
    /\ Notes(conversationHistory) # << >>
    /\ conversationHistory[Len(conversationHistory)].op = "streamResponse"

(***************************************************************************)
(* Properties of Gemini's stream decoder (checked under SpecGemini).       *)
(***************************************************************************)
\* What a decode yields, the identifiers of the tool calls left out (they
\* hold the time of the read)
Decoded(st) ==
    [response |-> st.response,
     hasToolCalls |-> st.hasToolCalls,
     toolCalls |-> [i \in 1..Len(st.toolCalls) |->
                      [name |-> st.toolCalls[i].name,
                       arguments |-> st.toolCalls[i].arguments]]]

\* The body read as one chunk
OneChunk(body) ==
    GeminiRead([buffer |-> Empty, st |-> DecodeStart], Concat(body), 7)

\* C14: the decoding of Gemini's concatenated objects does not depend on where
\* the reads cut the body: whatever the chunks, the decoder holds after the
\* last one the text, the tool calls (names and arguments, in order) and the
\* unfinished object that it holds after reading the same characters as one
\* chunk.
C14_ChunkIndependent ==
    (provider = "gemini" /\ reader.rest = << >> /\ reader.body # << >>) =>
        /\ Decoded(reader.st) = Decoded(OneChunk(reader.body).st)
        /\ reader.buffer = OneChunk(reader.body).buffer

\* A body with text and a tool call was read to its end in chunks of which
\* one ended inside an object
C14_CutInsideObject ==
    /\ provider = "gemini"
    /\ reader.done
    /\ reader.carried
    /\ Truthy(reader.st.response)
    /\ reader.st.hasToolCalls

\* The texts of GeminiTexts that the claim counts as well-formed objects: they
\* parse, and their strings hold no brace
PlainObject(text) ==
    /\ JSONparse(text).ok
    /\ \A i \in 1..Len(JSONparse(text).parts) :
          /\ "{" \notin Range(JSONparse(text).parts[i].text)
          /\ "}" \notin Range(JSONparse(text).parts[i].text)

\* The well-formed objects of a body decoded one by one, the rest skipped
RECURSIVE ObjectsApart(_, _)
ObjectsApart(st, body) ==
    IF body = << >>
    THEN st
    ELSE ObjectsApart(IF PlainObject(Head(body))
                      THEN ObjectFound(st, Head(body), 7)
                      ELSE st,
                      Tail(body))

\* C15: an object that fails to parse is discarded and the decoding goes on:
\* after a malformed object (truncated, or with a brace in a string value)
\* every later well-formed object is decoded, so that the decode of a body
\* yields the text and the tool calls of its well-formed objects.
C15_DecodingGoesOn ==
    (provider = "gemini" /\ reader.done) =>
        Decoded(reader.st) = Decoded(ObjectsApart(DecodeStart, reader.body))

(***************************************************************************)
(* Properties of the event-stream decoders (checked under SpecEvents).     *)
(***************************************************************************)
\* A 'data: ' line whose payload is not JSON, or a line without the prefix
Skipped(line) == (line.data /\ ~line.done /\ ~line.json) \/ ~line.data

WithoutSkipped(body) == SelectSeq(body, LAMBDA line : ~Skipped(line))

\* C16: the event-stream decoders skip a 'data: ' line whose payload is not
\* JSON and ignore the lines without the 'data: ' prefix: the decode of a
\* body yields what the decode of the same body without those lines yields.
C16_BadLinesSkipped ==
    reader.done =>
        reader.st = StreamEnd(provider,
                              StreamChunk(provider, DecodeStart,
                                          WithoutSkipped(reader.body), 7))

\* A body was decoded to its end in which a line that decodes to something
\* comes before and after a line that does not parse
C16_BadLineBetween ==
    /\ reader.done
    /\ Len(reader.body) = 3
    /\ ~Skipped(reader.body[1])
    /\ reader.body[2] = BadLine
    /\ ~Skipped(reader.body[3])
    /\ StreamEntry(provider, DecodeStart, reader.body[1], 7) # DecodeStart
    /\ reader.st # StreamEnd(provider,
                             StreamChunk(provider, DecodeStart,
                                         <<reader.body[1]>>, 7))

\* The fragments of a body, in arrival order
RECURSIVE FragmentsOf(_)
FragmentsOf(body) ==
    IF body = << >>
    THEN << >>
    ELSE (IF Skipped(Head(body)) \/ Head(body).done THEN << >> ELSE Head(body).frags)
         \o FragmentsOf(Tail(body))

\* The identifiers of the fragments, each once, in the order of their first
\* arrival
RECURSIVE FirstArrivals(_, _)
FirstArrivals(frags, seen) ==
    IF frags = << >>
    THEN << >>
    ELSE IF Head(frags).id \in seen
         THEN FirstArrivals(Tail(frags), seen)
         ELSE <<Head(frags).id>>
              \o FirstArrivals(Tail(frags), seen \cup {Head(frags).id})

RECURSIVE PiecesOf(_, _)
PiecesOf(frags, id) ==
    IF frags = << >>
    THEN [name |-> Empty, arguments |-> Empty]
    ELSE LET rest == PiecesOf(Tail(frags), id)
         IN  IF Head(frags).id = id
             THEN [name |-> Head(frags).name \o rest.name,
                   arguments |-> Head(frags).arguments \o rest.arguments]
             ELSE rest

Assembled(frags) ==
    [i \in 1..Len(FirstArrivals(frags, {})) |->
        ToolCall(FirstArrivals(frags, {})[i],
                 PiecesOf(frags, FirstArrivals(frags, {})[i]).name,
                 PiecesOf(frags, FirstArrivals(frags, {})[i]).arguments)]

NoVisionCatalog ==
    /\ loading.phase = "read"
    /\ loading.body.json
    /\ loading.body.hasData
    /\ VisionModels(loading.body.data) = << >>

FetchFailed == loading.phase \in {"rejected", "refused"}

\* C18: when the catalog fetch fails or yields no image-capable entry,
\* loadModels leaves a non-empty model list, a fixed fallback that contains
\* 'openai/gpt-4o', and a defaultModel that is the value of an entry of the
\* list.
C18_NeverZeroModels ==
    (outcome.op = "loadModels" /\ (FetchFailed \/ NoVisionCatalog)) =>
        /\ models \in {LoadFallback(provider), NoVisionFallback}
        /\ \E i \in 1..Len(models) : models[i].value = <<"openai/gpt-4o">>
        /\ ~defaultModel.isNull
        /\ \E i \in 1..Len(models) : models[i].value = defaultModel.value

\* C19: when the catalog fetch fails, by a rejection or by a non-success
\* status, loadModels ends by returning the fallback list and does not raise
\* the error of the fetch.
C19_FallbackReturned ==
    (outcome.op = "loadModels" /\ FetchFailed) =>
        /\ outcome.error = NoError
        /\ models = LoadFallback(provider)

(***************************************************************************)
(* Properties of createMultimodalMessage (checked under SpecMessage).      *)
(***************************************************************************)
\* The images of the argument as a list: an array as it is, a single value as
\* a list of one
ImageList(image) == IF image.isArray THEN image.items ELSE <<image.value>>

\* C20: createMultimodalMessage returns, on every adapter, a user message
\* that holds a text block if and only if the text is truthy, followed by
\* exactly one image block per non-empty image of the argument, in input
\* order (falsy entries skipped, a single image taken as a list of one); so
\* ("hi", []) gives the text block alone and (null, image) the image block
\* alone.
C20_BlockPerImage ==
    built.made =>
        /\ built.message.role = "user"
        /\ built.message.content =
              (IF Truthy(built.textContent)
               THEN <<TextBlock(built.textContent)>>
               ELSE << >>)
              \o [i \in 1..Len(TruthyItems(ImageList(built.base64Images))) |->
                    createImageContent(provider,
                        TruthyItems(ImageList(built.base64Images))[i])]

(***************************************************************************)
(* The reader of the streaming decoders (checked under Spec).              *)
(***************************************************************************)
\* C21: the reader that a streaming streamResponse acquires is released
\* exactly once on every way out, the return at the end of the stream (with
\* or without skipped fragments on the way) and the throw of a rejected
\* reader.read(), and no call that has ended holds a locked reader.
C21_ReaderReleased ==
    /\ (outcome.op = "streamResponse" /\ Streaming(provider)) =>
          /\ ~outcome.locked
          /\ outcome.released = 1
    /\ \A c \in 1..Len(calls) :
          calls[c].locked => calls[c].phase = "reading"

\* A streaming streamResponse has thrown the rejection of reader.read()
C21_ReadErrorExit ==
    /\ outcome.op = "streamResponse"
    /\ Streaming(provider)
    /\ outcome.error = Thrown("TransportError", 0, Empty)
    /\ outcome.released = 1

\* The functionCall parts of a body that the decoder parses, in order: for
\* the streaming decoder the parts of its plain objects, for the atomic one
\* the parts of the body when it is one object
RECURSIVE CallNames(_)
CallNames(parts) ==
    IF parts = << >>
    THEN << >>
    ELSE (IF Head(parts).fc THEN <<Head(parts).name>> ELSE << >>)
         \o CallNames(Tail(parts))

\* C22: the identifiers that the Gemini decoders make up are pairwise
\* distinct within one response, whatever the times at which the calls are
\* created and however the parts are spread over objects and chunks, and the
\* tool calls come in the order of the parts: the call at position i carries
\* the ordinal i - 1.
C22_DistinctIds ==
    LET toolCalls == reader.st.toolCalls
    IN  /\ \A i, j \in 1..Len(toolCalls) :
              i # j => toolCalls[i].id # toolCalls[j].id
        /\ \A i \in 1..Len(toolCalls) :
              \E now \in ReadTimes : toolCalls[i].id = GeminiId(now, i - 1)
        /\ (provider = "gemini_atomic" /\ reader.done
              /\ JSONparse(Concat(reader.body)).ok) =>
              [i \in 1..Len(toolCalls) |-> toolCalls[i].name] =
                  CallNames(JSONparse(Concat(reader.body)).parts)

\* Three tool calls of one response, two of them made at the same time
C22_ThreeCalls ==
    /\ reader.done
    /\ Len(reader.st.toolCalls) = 3
    /\ reader.st.toolCalls[1].id = GeminiId(7, 0)
    /\ reader.st.toolCalls[2].id = GeminiId(7, 1)
    /\ reader.st.toolCalls[2].name = <<"g">>

(***************************************************************************)
(* Model selection.  Every adapter answers getCurrentModel from the item   *)
(* 'ai-model' of localStorage and falls back to its own defaultModel.  The *)
(* item is written by the page that owns the adapters, while one of them   *)
(* is the provider in use.                                                 *)
(***************************************************************************)
\* this.defaultModel as the constructor leaves it; OpenRouter's is the field
\* loadModels fills in
DefaultModel(p, field) ==
    IF IsOpenRouter(p) THEN field
    ELSE IF IsOpenAI(p) THEN Model(<<"gpt-4o">>)
    ELSE IF IsAnthropic(p) THEN Model(<<"claude-sonnet-4-0">>)
    ELSE Model(<<"gemini-2.5-flash">>)

\* localStorage.getItem('ai-model') || this.defaultModel
getCurrentModel(p, item, field) ==
    IF ~item.isNull /\ Truthy(item.value) THEN item ELSE DefaultModel(p, field)

\* Values the page stores under 'ai-model'
StoredModels ==
    {Empty, <<"gpt-4o">>, <<"claude-sonnet-4-0">>, <<"gemini-2.5-flash">>,
     <<"openai/gpt-4o">>}

InitSelection ==
    /\ provider \in Providers
    /\ Constructed
    /\ reader = NoReader
    /\ loading = Idle
    /\ built = NoMessage
    /\ selection = NoSelection

\* The page stores a model preference while adapter p is the one in use
SetItemModel(p, value) ==
    /\ selection' = [NoSelection EXCEPT !.stored = Model(value),
                                        !.storedFor = p]
    /\ UNCHANGED <<provider, adapter, reader, loading, built>>

\* getCurrentModel() of adapter p
GetCurrentModel(p) ==
    /\ selection' =
           [selection EXCEPT !.asked = p,
                             !.got = getCurrentModel(p, selection.stored,
                                                     defaultModel)]
    /\ UNCHANGED <<provider, adapter, reader, loading, built>>

NextSelection ==
    \/ \E p \in Providers, value \in StoredModels : SetItemModel(p, value)
    \/ \E p \in Providers : GetCurrentModel(p)

SpecSelection == InitSelection /\ [][NextSelection]_vars

\* Two adapters of one provider (the atomic and the streaming variant)
SameProvider(p, q) ==
    \/ IsOpenAI(p) /\ IsOpenAI(q)
    \/ IsOpenRouter(p) /\ IsOpenRouter(q)
    \/ IsAnthropic(p) /\ IsAnthropic(q)
    \/ IsGemini(p) /\ IsGemini(q)

\* C23: model selection is independent per provider: what getCurrentModel of
\* an adapter returns is not affected by a model preference stored for (or
\* while using) a different provider, so with only such a preference in
\* storage the adapter answers with its own defaultModel.
C23_OwnSelection ==
    (/\ selection.asked \in Providers
     /\ selection.storedFor \in Providers
     /\ ~SameProvider(selection.asked, selection.storedFor))
        => selection.got = DefaultModel(selection.asked, defaultModel)

(***************************************************************************)
(* The request of callAPI and the history it is taken from.                *)
(***************************************************************************)
\* C24: the request callAPI encodes carries the full current history in
\* order, with the user turn this call just appended as its last message: the
\* encoded list equals the history at the moment of sending.  (The body is
\* the string JSON.stringify makes before the first await, so no later
\* change of the history reaches it.)
C24_RequestIsHistory ==
    sent # NoRequest =>
        /\ sent.messages = Wire(conversationHistory)
        /\ Len(conversationHistory) > 0
        /\ conversationHistory[Len(conversationHistory)].op = "callAPI"
        /\ conversationHistory[Len(conversationHistory)].call = sent.call
        /\ sent.messages[Len(sent.messages)].role = "user"

\* The second call's request: first turn, its reply, second turn
C24_SecondRequestSent ==
    /\ sent # NoRequest
    /\ sent.call = 2
    /\ Len(sent.messages) >= 3
    /\ \E i \in 1..Len(conversationHistory) :
           conversationHistory[i].op = "streamResponse"

\* The call c has ended without a reply and its user turn is in the history
FailedCall(c) ==
    /\ c \in 1..Len(calls)
    /\ calls[c].phase = "closed"
    /\ UserTurnAt(conversationHistory, c)
    /\ ~ReplyAt(conversationHistory, c)

\* C25: after a failed callAPI the user turn stays and a retry is a new call.
\* With calls made one at a time and nothing else pushed, the history ends
\* with the failed call's user turn, without reply; the next callAPI appends
\* a second user turn directly after it, so that its request contains two
\* consecutive user turns.
C25_RetryAfterFailure ==
    LET h == conversationHistory
        n == Len(conversationHistory)
    IN  /\ (/\ outcome.op = "callAPI"
            /\ outcome.error # NoError
            /\ ~outcome.stale
            /\ serial
            /\ Notes(h) = << >>)
               => /\ n > 0
                  /\ h[n].op = "callAPI"
                  /\ h[n].call = outcome.call
                  /\ h[n].role = "user"
        /\ (/\ sent # NoRequest
            /\ sent.call = 2
            /\ FailedCall(1)
            /\ Notes(h) = << >>)
               => /\ n >= 2
                  /\ h[n - 1].op = "callAPI" /\ h[n - 1].call = 1
                  /\ h[n].op = "callAPI" /\ h[n].call = 2
                  /\ Len(sent.messages) = n
                  /\ sent.messages[n - 1].role = "user"
                  /\ sent.messages[n].role = "user"

\* The retry's request, with the failed call's turn before its own
C25_RetrySent ==
    /\ sent # NoRequest
    /\ sent.call = 2
    /\ FailedCall(1)
    /\ Len(sent.messages) >= 2
    /\ sent.messages[Len(sent.messages) - 1].role = "user"
    /\ sent.messages[Len(sent.messages)].role = "user"

(***************************************************************************)
(* Roles in the history.                                                   *)
(***************************************************************************)
\* The entries setSystemPrompt, clearHistory, callAPI and streamResponse
\* left in the history h (all but those pushed by addToHistory from outside)
OwnEntries(h) == SelectSeq(h, LAMBDA m : m.op # "addToHistory")

\* C26: the side-channel providers never store the system prompt in-line and
\* Gemini remaps roles: whatever sequence of setSystemPrompt, clearHistory,
\* callAPI and streamResponse ran, the entries they left in the Anthropic
\* history have the roles user and assistant only, those in the Gemini
\* history the roles user and model only.
C26_SideChannelRoles ==
    \A i \in 1..Len(OwnEntries(conversationHistory)) :
        LET role == OwnEntries(conversationHistory)[i].role
        IN  /\ IsAnthropic(provider) => role \in {"user", "assistant"}
            /\ IsGemini(provider) => role \in {"user", "model"}

\* A Gemini conversation under a system prompt, with a reply stored as model
C26_GeminiReplyUnderPrompt ==
    /\ IsGemini(provider)
    /\ Truthy(systemPrompt)
    /\ \E i \in 1..Len(conversationHistory) :
           /\ conversationHistory[i].op = "streamResponse"
           /\ conversationHistory[i].role = "model"

\* The places of the history h where setSystemPrompt, clearHistory, callAPI
\* or streamResponse left a system message
SystemPlaces(h) ==
    {i \in 1..Len(h) : h[i].op # "addToHistory" /\ h[i].role = "system"}

\* C27: for the in-line providers, whatever sequence of setSystemPrompt,
\* clearHistory, callAPI and streamResponse ran, the history holds at most
\* one system message of theirs; it is the first entry and holds the most
\* recently set prompt, and it is there whenever a prompt was set and the
\* history was not cleared since.
C27_OneSystemMessageFirst ==
    InLine(provider) =>
        /\ Cardinality(SystemPlaces(conversationHistory)) <= 1
        /\ \A i \in SystemPlaces(conversationHistory) :
              /\ i = 1
              /\ lastPrompt.set
              /\ conversationHistory[i].content =
                    <<TextBlock(lastPrompt.text)>>
        /\ lastPrompt.set => 1 \in SystemPlaces(conversationHistory)

\* An in-line conversation: the prompt, a user turn and its reply
C27_PromptThenRoundTrip ==
    /\ InLine(provider)
    /\ Len(conversationHistory) >= 3
    /\ SystemPlaces(conversationHistory) = {1}
    /\ conversationHistory[2].op = "callAPI"
    /\ conversationHistory[3].op = "streamResponse"

(***************************************************************************)
(* An event stream as text: the body is a string of lines, read in chunks  *)
(* cut anywhere.  'data: ' is one token of the text, so a chunk ends       *)
(* before or after the prefix of a line, or anywhere in its payload.       *)
(***************************************************************************)
MaxEvents == 2

NewLine == "\n"
DataPrefix == "data: "
DoneText == "[DONE]"

\* The event of a payload that JSON.parse accepted: a text delta with the
\* strings of the payload
RECURSIVE PartsText(_)
PartsText(parts) ==
    IF parts = << >> THEN Empty ELSE Head(parts).text \o PartsText(Tail(parts))

ParsedEvent(p, parts) ==
    IF p = "anthropic_sse"
    THEN TextDelta(PartsText(parts))
    ELSE ContentDelta(PartsText(parts))

\* The body of `for (const line of lines)`: startsWith('data: '), slice(6),
\* [DONE], and JSON.parse in its try block
StreamLine(p, st, line) ==
    IF line # << >> /\ Head(line) = DataPrefix
    THEN IF Tail(line) = <<DoneText>>
         THEN st
         ELSE IF JSONparse(Tail(line)).ok
              THEN StreamEntry(p, st,
                               ParsedEvent(p, JSONparse(Tail(line)).parts), 0)
              ELSE st
    ELSE st

\* chunk.split('\n') and the loop over the lines; line is the line being
\* gathered
RECURSIVE StreamLines(_, _, _, _)
StreamLines(p, st, line, chunk) ==
    IF chunk = << >>
    THEN StreamLine(p, st, line)
    ELSE IF Head(chunk) = NewLine
         THEN StreamLines(p, StreamLine(p, st, line), << >>, Tail(chunk))
         ELSE StreamLines(p, st, Append(line, Head(chunk)), Tail(chunk))

\* Lines of a body: two text events, the end marker, a comment line, a
\* payload that is not JSON and an empty line
LineTexts ==
    {<<DataPrefix, "{", Quote, "a", Quote, "}", NewLine>>,
     <<DataPrefix, "{", Quote, "b", Quote, "}", NewLine>>,
     <<DataPrefix, DoneText, NewLine>>,
     <<":", NewLine>>,
     <<DataPrefix, "{", NewLine>>,
     <<NewLine>>}

LineBodies == UNION {[1..n -> LineTexts] : n \in 1..MaxEvents}

InitLines ==
    /\ provider \in {"anthropic_sse", "openrouter_sse"}
    /\ Constructed
    /\ loading = Idle
    /\ built = NoMessage
    /\ selection = NoSelection
    /\ \E body \in LineBodies :
          reader = [NoReader EXCEPT !.body = body, !.rest = Concat(body)]

\* reader.read() resolves with the next n tokens of the text; carried tells
\* that a chunk ended inside a line
LinesReadChunk(n) ==
    /\ ~reader.done
    /\ n \in 1..Len(reader.rest)
    /\ reader' = [reader EXCEPT
                     !.rest = SubSeq(@, n + 1, Len(@)),
                     !.st = StreamLines(provider, @, << >>,
                                        SubSeq(reader.rest, 1, n)),
                     !.carried = @ \/ reader.rest[n] # NewLine]
    /\ UNCHANGED <<provider, adapter, loading, built, selection>>

\* reader.read() resolves with done
LinesReadDone ==
    /\ ~reader.done
    /\ reader.rest = << >>
    /\ reader' = [reader EXCEPT !.st = StreamEnd(provider, @), !.done = TRUE]
    /\ UNCHANGED <<provider, adapter, loading, built, selection>>

NextLines ==
    \/ \E n \in 1..Len(reader.rest) : LinesReadChunk(n)
    \/ LinesReadDone

SpecLines == InitLines /\ [][NextLines]_vars

\* The body decoded from one chunk
WholeBody(p, body) ==
    StreamEnd(p, StreamLines(p, DecodeStart, << >>, Concat(body)))

\* C28: what the event-stream decoders return does not depend on how the
\* body is cut into chunks, cuts inside a 'data: ' line included: the result
\* is that of the same body read as one chunk.
C28_SplitIndependent ==
    reader.done =>
        /\ reader.st.response = WholeBody(provider, reader.body).response
        /\ reader.st.hasToolCalls =
              WholeBody(provider, reader.body).hasToolCalls
        /\ reader.st.toolCalls = WholeBody(provider, reader.body).toolCalls

(***************************************************************************)
(* The result of streamResponse.                                           *)
(***************************************************************************)
\* C29: in the result of streamResponse, hasToolCalls is true exactly when
\* toolCalls is not empty, for every decoder and every body.
C29_FlagMatchesCalls ==
    (outcome.op = "streamResponse" /\ outcome.error = NoError)
        => (outcome.result.hasToolCalls <=> outcome.result.toolCalls # << >>)

\* The identifiers of a list of tool calls, in its order
CallIds(list) == [i \in 1..Len(list) |-> list[i].id]

\* C30: OpenRouter's streaming decoder returns the tool calls in the order in
\* which their identifiers first appeared in the stream, whatever the
\* identifiers are (those that read as non-negative integers included).
C30_FirstAppearanceOrder ==
    (reader.done /\ provider = "openrouter_sse") =>
        CallIds(reader.st.toolCalls) =
            FirstArrivals(FragmentsOf(reader.body), {})

(***************************************************************************)
(* Properties of Anthropic's event stream (checked under SpecEvents).      *)
(***************************************************************************)
\* The tool_use blocks that the lines of a body open, each with the
\* partial_json deltas that follow it up to its stop, to the next block or to
\* the end of the body; open is the block being gathered
RECURSIVE OpenedBlocks(_, _)
OpenedBlocks(body, open) ==
    LET closed == IF open.open
                  THEN <<ToolCall(open.id, open.name, open.arguments)>>
                  ELSE << >>
        line == Head(body)
    IN  IF body = << >>
        THEN closed
        ELSE IF Skipped(line) \/ line.done
        THEN OpenedBlocks(Tail(body), open)
        ELSE IF line.type = "content_block_start" /\ line.block_type = "tool_use"
        THEN closed \o OpenedBlocks(Tail(body),
                                    [open |-> TRUE, id |-> line.id,
                                     name |-> line.name, arguments |-> Empty])
        ELSE IF line.type = "content_block_delta" /\ open.open
        THEN OpenedBlocks(Tail(body),
                          [open EXCEPT !.arguments = @ \o line.partial_json])
        ELSE IF line.type = "content_block_stop"
        THEN closed \o OpenedBlocks(Tail(body), NoToolCall)
        ELSE OpenedBlocks(Tail(body), open)

\* C31: in Anthropic's event-stream decoder every tool_use block that a
\* content_block_start opens yields exactly one ToolCall of the result, with
\* the block's id and name and the concatenation, in order, of the block's
\* partial_json deltas as arguments; no opened block is lost when the stream
\* ends without its content_block_stop or when another block starts before
\* it stops.
C31_EveryBlockReturned ==
    (reader.done /\ provider = "anthropic_sse") =>
        reader.st.toolCalls = OpenedBlocks(reader.body, NoToolCall)

(***************************************************************************)
(* Gemini's two decoders on the same candidate parts: the atomic one       *)
(* (src/unnamed/part_001) takes them from one whole body, the streaming    *)
(* one (src/gemini.js) from the objects of a stream, some parts at a time. *)
(***************************************************************************)
MaxParts == 3

\* Parts of candidates[0].content.parts: a text, a functionCall without and
\* with args, a part with both a text and a functionCall, and an empty text
PartValues ==
    {TextItem("part", <<"a">>),
     ToolItem("part", Empty, <<"f">>, Empty),
     ToolItem("part", Empty, <<"g">>, <<"{}">>),
     Item("part", <<"b">>, TRUE, Empty, <<"f">>, Empty),
     TextItem("part", Empty)}

PartLists == UNION {[1..n -> PartValues] : n \in 1..MaxParts}

InitParts ==
    /\ provider \in {"gemini", "gemini_atomic"}
    /\ Constructed
    /\ loading = Idle
    /\ built = NoMessage
    /\ selection = NoSelection
    /\ \E parts \in PartLists :
          reader = [NoReader EXCEPT !.body = parts, !.rest = parts]

\* The streaming decoder finds an object that holds the next n parts
PartsReadObject(n, now) ==
    /\ provider = "gemini"
    /\ ~reader.done
    /\ n \in 1..Len(reader.rest)
    /\ reader' = [reader EXCEPT
                     !.rest = SubSeq(@, n + 1, Len(@)),
                     !.st = GeminiStreamParts(@, SubSeq(reader.rest, 1, n),
                                              now),
                     !.carried = @ \/ n < Len(reader.rest)]
    /\ UNCHANGED <<provider, adapter, loading, built, selection>>

\* reader.read() resolves with done
PartsReadDone ==
    /\ provider = "gemini"
    /\ ~reader.done
    /\ reader.rest = << >>
    /\ reader' = [reader EXCEPT !.done = TRUE]
    /\ UNCHANGED <<provider, adapter, loading, built, selection>>

\* The atomic decoder: response.json() resolves with all the parts
PartsJsonResolves(now) ==
    /\ provider = "gemini_atomic"
    /\ ~reader.done
    /\ reader' = [reader EXCEPT
                     !.rest = << >>,
                     !.st = AtomicDecode(provider,
                                AtomicBody("none", Empty, << >>, reader.rest),
                                now),
                     !.done = TRUE]
    /\ UNCHANGED <<provider, adapter, loading, built, selection>>

NextParts ==
    \/ \E n \in 1..MaxParts, now \in ReadTimes : PartsReadObject(n, now)
    \/ PartsReadDone
    \/ \E now \in ReadTimes : PartsJsonResolves(now)

SpecParts == InitParts /\ [][NextParts]_vars

\* C32: Gemini's atomic decoder and its streaming decoder are equivalent on
\* the same content: for every list of candidate parts (each with a text, a
\* functionCall, or both) the whole-body decode and the stream decode give
\* the same text, the same hasToolCalls and tool calls with the same names
\* and arguments in the same order.
C32_DecodersAgree ==
    reader.done =>
        /\ Decoded(reader.st) =
              Decoded(AtomicItems("gemini_atomic", DecodeStart, reader.body, 7))
        /\ Decoded(reader.st) =
              Decoded(GeminiStreamParts(DecodeStart, reader.body, 7))

(***************************************************************************)
(* The assistant turn of a decode (checked under Spec).                    *)
(***************************************************************************)
\* The step ends a streamResponse that returns
DecodeReturns == outcome'.op = "streamResponse" /\ outcome'.error = NoError

\* C33: every successful streamResponse appends exactly one assistant turn
\* whose content is the accumulated text only: the turn is appended also
\* when the text is empty (a response of tool calls only, or an empty one)
\* and the tool calls are not recorded, so that the history grows by exactly
\* one entry per decode.
C33_OneTurnPerDecode ==
    [][DecodeReturns =>
          /\ Len(conversationHistory') = Len(conversationHistory) + 1
          /\ conversationHistory' =
                Append(conversationHistory,
                       conversationHistory'[Len(conversationHistory')])
          /\ Wire(conversationHistory')[Len(conversationHistory')] =
                AssistantTurn(provider, outcome'.result.response)
          /\ conversationHistory'[Len(conversationHistory')].content =
                <<TextBlock(outcome'.result.response)>>
          /\ IsAssistantRole(provider,
                conversationHistory'[Len(conversationHistory')].role)]_vars

\* A decode that returned tool calls and no text, its empty turn recorded
C33_EmptyTurnRecorded ==
    /\ outcome.op = "streamResponse"
    /\ outcome.error = NoError
    /\ outcome.result.response = Empty
    /\ outcome.result.toolCalls # << >>
    /\ conversationHistory # << >>
    /\ conversationHistory[Len(conversationHistory)].op = "streamResponse"
    /\ conversationHistory[Len(conversationHistory)].content =
          <<TextBlock(Empty)>>

\* Where the conversation begins in the history h: after the in-line system
\* message that setSystemPrompt left, if there is one
FirstTurn(h) ==
    IF InLine(provider) /\ h # << >> /\ h[1].op = "setSystemPrompt"
    THEN 2
    ELSE 1

\* C34: when setSystemPrompt or clearHistory runs while a call is in flight
\* (after callAPI pushed the user turn, before its streamResponse returns),
\* the streamResponse still appends its assistant turn, to the history as
\* the reset left it: the turn is the last entry and the call's user turn is
\* gone.  A state is reachable where the first message of the conversation
\* is such an assistant turn, with no user turn before it.
C34_ReplyAfterReset ==
    (outcome.op = "streamResponse" /\ outcome.error = NoError /\ outcome.stale)
        => /\ conversationHistory # << >>
           /\ conversationHistory[Len(conversationHistory)].op =
                 "streamResponse"
           /\ conversationHistory[Len(conversationHistory)].call = outcome.call
           /\ ~UserTurnAt(conversationHistory, outcome.call)

\* The reply of a call that the reset overtook opens the conversation
C34_AssistantTurnFirst ==
    /\ outcome.op = "streamResponse"
    /\ outcome.error = NoError
    /\ outcome.stale
    /\ Len(conversationHistory) = FirstTurn(conversationHistory)
    /\ conversationHistory[FirstTurn(conversationHistory)].op =
          "streamResponse"
    /\ IsAssistantRole(provider,
          conversationHistory[FirstTurn(conversationHistory)].role)

(***************************************************************************)
(* Properties of OpenRouter's catalog under loadModels and validateApiKey  *)
(* interleaved at their awaits (checked under SpecModels).                 *)
(***************************************************************************)
\* defaultModel is the value of an entry of the list
DefaultListed ==
    \E i \in 1..Len(models) : models[i].value = defaultModel.value

\* C35: in every state that loadModels and validateApiKey, interleaved at
\* their network suspension points, can reach: modelsLoaded implies that the
\* list of models is not empty, and defaultModel is null or the value of an
\* entry of the current list.
C35_CatalogInvariant ==
    /\ modelsLoaded => Len(models) > 0
    /\ defaultModel.isNull \/ DefaultListed

\* The catalog is marked loaded and holds a list
Loaded == modelsLoaded /\ Len(models) > 0

\* The step is the beginning of a loadModels(): no load is at an await
\* before it, and it returns, throws, or leaves a fetch behind
LoadBegins ==
    /\ loading.phase \notin {"fetch", "body"}
    /\ outcome'.op = "loadModels" \/ loading'.phase = "fetch"

\* The step ends a validateApiKey that throws
ValidationFails == outcome'.op = "validateApiKey" /\ outcome'.error # NoError

====
